---- MODULE Spec2Model ----
(***************************************************************************)
(* A model of cholla's ParameterMap (src/io/ParameterMap.cpp and           *)
(* src/io/ParameterMap.h): the constructor that parses a parameter file    *)
(* and the command-line overrides, and the accessors that read the map     *)
(* afterwards.                                                             *)
(*                                                                         *)
(* A string is a sequence of one-character strings.  Positions inside the  *)
(* helper operators are 0-based, as in the C++ code, and npos is -1.       *)
(***************************************************************************)
EXTENDS Integers, Sequences, FiniteSets, TLC

(***************************************************************************)
(* Bounds of the model.                                                    *)
(***************************************************************************)
\* the number of physical lines of the parameter file
MaxLines == 3
\* argc: the number of command-line tokens handed to the constructor
MaxArgs == 2

(***************************************************************************)
(* Program constants.                                                      *)
(***************************************************************************)
\* char buff[256]
BuffSize == 256

npos == -1

(***************************************************************************)
(* Characters.                                                             *)
(***************************************************************************)
Digits == {"0", "1", "2", "3", "4", "5", "6", "7", "8", "9"}

Letters ==
  {"a", "b", "c", "d", "e", "f", "g", "h", "i", "j", "k", "l", "m", "n", "o",
   "p", "q", "r", "s", "t", "u", "v", "w", "x", "y", "z",
   "A", "B", "C", "D", "E", "F", "G", "H", "I", "J", "K", "L", "M", "N", "O",
   "P", "Q", "R", "S", "T", "U", "V", "W", "X", "Y", "Z"}

\* std::isspace in the "C" locale (the vertical tab has no TLA+ escape and is
\* in no input of the model)
isspace(ch) == ch \in {" ", "\t", "\n", "\f", "\r"}

\* std::isalnum in the "C" locale
isalnum(ch) == ch \in (Digits \cup Letters)

(***************************************************************************)
(* std::string_view operations, 0-based.                                   *)
(***************************************************************************)
Min(a, b) == IF a <= b THEN a ELSE b

\* s.find(ch): the first position of ch, or npos
Find(s, ch) ==
  LET hits == {i \in 1..Len(s) : s[i] = ch}
  IN  IF hits = {} THEN npos
      ELSE (CHOOSE i \in hits : \A j \in hits : i <= j) - 1

\* s.rfind(ch, from): the last position <= from of ch, or npos
RFind(s, ch, from) ==
  LET hits == {i \in 1..Min(Len(s), from + 1) : s[i] = ch}
  IN  IF hits = {} THEN npos
      ELSE (CHOOSE i \in hits : \A j \in hits : i >= j) - 1

\* s.substr(pos, n)
Substr(s, pos, n) == SubSeq(s, pos + 1, Min(Len(s), pos + n))

\* s.substr(pos)
SubstrFrom(s, pos) == SubSeq(s, pos + 1, Len(s))

\* a name "T.key" built as std::string concatenation
Dot == <<".">>

(***************************************************************************)
(* Try_Extract_Key_Value_View: the key is what precedes the first '=', the *)
(* value what follows it; both are empty when there is no '=', or it is    *)
(* the first or the last character.                                        *)
(***************************************************************************)
Try_Extract_Key_Value_View(buffer) ==
  LET pos == Find(buffer, "=")
  IN  IF pos = 0 \/ pos + 1 = Len(buffer) \/ pos = npos
      THEN [key |-> <<>>, value |-> <<>>]
      ELSE [key |-> Substr(buffer, 0, pos), value |-> SubstrFrom(buffer, pos + 1)]

\* rstrip: drop the trailing whitespace
rstrip(s) ==
  LET keep == {n \in 0..Len(s) : \A i \in (n + 1)..Len(s) : isspace(s[i])}
      cur_len == CHOOSE n \in keep : \A m \in keep : n <= m
  IN  SubSeq(s, 1, cur_len)

\* my_trim: drop the leading, then the trailing whitespace
my_trim(s) ==
  LET skip == {n \in 0..Len(s) : \A i \in 1..n : isspace(s[i])}
      start == CHOOSE n \in skip : \A m \in skip : n >= m
  IN  rstrip(SubstrFrom(s, start))

(***************************************************************************)
(* Process_Full_Name: validates the characters of full_name, then walks    *)
(* its dotted prefixes from the longest to the shortest, registering each  *)
(* as a table until one is already registered.  The result is the error    *)
(* message ("" when there is none) and the table set as the call leaves    *)
(* it.                                                                     *)
(***************************************************************************)
bad_value_count(full_name) ==
  Cardinality({i \in 1..Len(full_name) :
                 /\ full_name[i] # "."
                 /\ full_name[i] # "_"
                 /\ full_name[i] # "-"
                 /\ ~isalnum(full_name[i])})

\* param_entries.find(table_name_prefix_str) != param_entries.end()
Collides_With_Parameter(table_name_prefix, param_names) ==
  table_name_prefix \in param_names

RECURSIVE Process_Full_Name_Loop(_, _, _, _)
Process_Full_Name_Loop(full_name, rfind_start, full_table_set, param_names) ==
  LET size_minus_1 == Len(full_name) - 1
      pos == RFind(full_name, ".", rfind_start)
      table_name_prefix == Substr(full_name, 0, pos)
  IN  IF pos = npos THEN [msg |-> "", tables |-> full_table_set]
      ELSE IF pos = size_minus_1
        THEN [msg |-> "ends with a '.' character", tables |-> full_table_set]
      ELSE IF pos = 0
        THEN [msg |-> "start with a '.' character", tables |-> full_table_set]
      ELSE IF pos = rfind_start
        THEN [msg |-> "contains contiguous '.' characters", tables |-> full_table_set]
      ELSE IF table_name_prefix \in full_table_set
        THEN [msg |-> "", tables |-> full_table_set]
      ELSE IF Collides_With_Parameter(table_name_prefix, param_names)
        THEN [msg |-> "the (sub)table name collides with an existing parameter",
              tables |-> full_table_set \cup {table_name_prefix}]
      ELSE Process_Full_Name_Loop(full_name, pos - 1,
                                  full_table_set \cup {table_name_prefix}, param_names)

\* a faulty variant of Process_Full_Name: the character check is left out
Process_Full_Name_NoCharCheck(full_name, full_table_set, param_names) ==
  Process_Full_Name_Loop(full_name, Len(full_name) - 1, full_table_set, param_names)

Process_Full_Name(full_name, full_table_set, param_names) ==
  IF bad_value_count(full_name) > 0
  THEN [msg |-> "contains an unallowed character", tables |-> full_table_set]
  ELSE Process_Full_Name_Loop(full_name, Len(full_name) - 1, full_table_set, param_names)

(***************************************************************************)
(* The conversions of a parameter's string to a type.  Each returns the    *)
(* TypeErr ("none", "generic", "boolean", "out_of_range") and the value    *)
(* assigned to its output argument ("unassigned" when it is left alone).   *)
(***************************************************************************)
SpaceChars == {" ", "\t", "\n", "\f", "\r"}

DigitVal ==
  "0" :> 0 @@ "1" :> 1 @@ "2" :> 2 @@ "3" :> 3 @@ "4" :> 4 @@
  "5" :> 5 @@ "6" :> 6 @@ "7" :> 7 @@ "8" :> 8 @@ "9" :> 9

\* the number of consecutive characters of s, from 0-based position from, in set
RunLen(s, from, set) ==
  LET ok == {n \in 0..(Len(s) - from) : \A i \in 1..n : s[from + i] \in set}
  IN  IF from > Len(s) THEN 0 ELSE CHOOSE n \in ok : \A m \in ok : n >= m

\* the character at 0-based position pos, "" past the end (the terminating NUL)
At(s, pos) == IF pos >= 0 /\ pos < Len(s) THEN s[pos + 1] ELSE ""

\* a digit string without its leading zeros ("0" for zero)
StripZeros(d) ==
  LET z == RunLen(d, 0, {"0"})
  IN  IF z = Len(d) THEN <<"0">> ELSE SubstrFrom(d, z)

\* a > b for digit strings of the same length
LexGreater(a, b) ==
  \E i \in 1..Len(a) :
    /\ DigitVal[a[i]] > DigitVal[b[i]]
    /\ \A j \in 1..(i - 1) : a[j] = b[j]

\* a > b for digit strings without leading zeros
DigitsGreater(a, b) ==
  \/ Len(a) > Len(b)
  \/ Len(a) = Len(b) /\ LexGreater(a, b)

\* LLONG_MAX = 9223372036854775807 and -LLONG_MIN = 9223372036854775808
LLongMaxDigits ==
  <<"9","2","2","3","3","7","2","0","3","6","8","5","4","7","7","5","8","0","7">>

LLongMinDigits ==
  <<"9","2","2","3","3","7","2","0","3","6","8","5","4","7","7","5","8","0","8">>

(***************************************************************************)
(* std::strtoll(str, &ptr_end, 10): leading whitespace, an optional sign,  *)
(* then decimal digits.  ptr_end is the 0-based offset of the first        *)
(* character not converted: 0 when no conversion is performed.  The value  *)
(* is kept as a sign and a decimal digit string.                           *)
(***************************************************************************)
strtoll(str) ==
  LET ws == RunLen(str, 0, SpaceChars)
      sign_len == IF At(str, ws) \in {"+", "-"} THEN 1 ELSE 0
      nd == RunLen(str, ws + sign_len, Digits)
      digits == StripZeros(Substr(str, ws + sign_len, nd))
      neg == At(str, ws) = "-" /\ digits # <<"0">>
  IN  IF nd = 0
      THEN [ptr_end |-> 0, erange |-> FALSE, val |-> [neg |-> FALSE, digits |-> <<"0">>]]
      ELSE [ptr_end |-> ws + sign_len + nd,
            erange |-> DigitsGreater(digits, IF neg THEN LLongMinDigits ELSE LLongMaxDigits),
            val |-> [neg |-> neg, digits |-> digits]]

\* a faulty variant of try_bool_: only the start of the string is compared
try_bool_Prefix(str) ==
  IF Len(str) >= 4 /\ SubSeq(str, 1, 4) = <<"t", "r", "u", "e">>
  THEN [err |-> "none", val |-> TRUE]
  ELSE IF Len(str) >= 5 /\ SubSeq(str, 1, 5) = <<"f", "a", "l", "s", "e">>
  THEN [err |-> "none", val |-> FALSE]
  ELSE [err |-> "boolean", val |-> "unassigned"]

try_bool_(str) ==
  IF str = <<"t", "r", "u", "e">> THEN [err |-> "none", val |-> TRUE]
  ELSE IF str = <<"f", "a", "l", "s", "e">> THEN [err |-> "none", val |-> FALSE]
  ELSE [err |-> "boolean", val |-> "unassigned"]

\* the checks both numeric conversions make on the result r of the library
\* call: errno == ERANGE first, then str.data() + str.size() != ptr_end
Conversion_Err(str, r) ==
  IF r.erange THEN "out_of_range"
  ELSE IF Len(str) # r.ptr_end THEN "generic"
  ELSE "none"

\* val is assigned only when no check fails
try_int64_(str) ==
  LET type_err == Conversion_Err(str, strtoll(str))
  IN  [err |-> type_err,
       val |-> IF type_err = "none" THEN strtoll(str).val ELSE "unassigned"]

(***************************************************************************)
(* std::strtod(str, &ptr_end): leading whitespace, an optional sign, then  *)
(* a decimal number (digits with an optional '.', and an exponent when     *)
(* digits follow the 'e'), "inf"/"infinity" or "nan", in any case.         *)
(* Hexadecimal floats and "nan(...)" are not modelled: no value of the     *)
(* model starts with "0x" or holds a parenthesis.  The value is kept as    *)
(* sign, significant digits and decimal exponent: mant * 10^exp10.         *)
(* ERANGE is raised when the decimal magnitude leaves the range of a       *)
(* double (beyond about 1.8e308, or below about 2.2e-308 and not zero).    *)
(***************************************************************************)
\* the exponent digits as a number, saturated: five digits are out of range
ExpVal(d) ==
  LET s == StripZeros(d)
      n == Len(s)
  IN  IF n > 4 THEN 10000
      ELSE IF n = 4 THEN DigitVal[s[1]] * 1000 + DigitVal[s[2]] * 100 + DigitVal[s[3]] * 10 + DigitVal[s[4]]
      ELSE IF n = 3 THEN DigitVal[s[1]] * 100 + DigitVal[s[2]] * 10 + DigitVal[s[3]]
      ELSE IF n = 2 THEN DigitVal[s[1]] * 10 + DigitVal[s[2]]
      ELSE DigitVal[s[1]]

\* whether str holds word (lower case) at 0-based position pos, in any case
HasWordAt(str, pos, word, upper) ==
  /\ pos + Len(word) <= Len(str)
  /\ \A i \in 1..Len(word) : str[pos + i] \in {word[i], upper[i]}

\* the leading digits of DBL_MAX (1.7976931348623157e308)
DblMaxDigits ==
  <<"1","7","9","7","6","9","3","1","3","4","8","6","2","3","1","5","7">>

\* the leading digits of DBL_MIN (2.2250738585072014e-308)
DblMinDigits ==
  <<"2","2","2","5","0","7","3","8","5","8","5","0","7","2","0","1","4">>

\* digit string d right-padded with zeros, or cut, to n digits
PadTo(d, n) == [i \in 1..n |-> IF i <= Len(d) THEN d[i] ELSE "0"]

\* the digits, the optional '.' and the digits after it, from 0-based
\* position p: the digits before and after the point, and the length of it all
Scan_Mantissa(str, p) ==
  LET ni == RunLen(str, p, Digits)
      hasdot == At(str, p + ni) = "."
      nf == IF hasdot THEN RunLen(str, p + ni + 1, Digits) ELSE 0
  IN  [ni |-> ni, nf |-> nf, len |-> ni + (IF hasdot THEN 1 + nf ELSE 0),
       digits |-> Substr(str, p, ni) \o
                  (IF hasdot THEN Substr(str, p + ni + 1, nf) ELSE <<>>)]

\* the exponent part at 0-based position m ('e' or 'E', an optional sign, and
\* at least one digit): its length (0 when there is none) and its value
Scan_Exponent(str, m) ==
  LET hase == At(str, m) \in {"e", "E"}
      esign_len == IF hase /\ At(str, m + 1) \in {"+", "-"} THEN 1 ELSE 0
      ne == IF hase THEN RunLen(str, m + 1 + esign_len, Digits) ELSE 0
  IN  [len |-> IF ne > 0 THEN 1 + esign_len + ne ELSE 0,
       e |-> IF ne = 0 THEN 0
             ELSE IF At(str, m + 1) = "-"
             THEN 0 - ExpVal(Substr(str, m + 1 + esign_len, ne))
             ELSE ExpVal(Substr(str, m + 1 + esign_len, ne))]

\* strtod's result for the number that starts at p with mantissa man and
\* exponent part ex, or for the words it accepts in place of a number
strtod_result(str, p, neg, man, ex) ==
  LET mant == StripZeros(man.digits)
      \* the exponent of the first significant digit: value = d.ddd * 10^adj
      adj == (Len(mant) - 1) + (ex.e - man.nf)
      zero == mant = <<"0">>
      \* 308 is the decimal exponent of DBL_MAX, -308 that of DBL_MIN
      over == \/ adj > 308
              \/ adj = 308 /\ LexGreater(PadTo(mant, 17), DblMaxDigits)
      under == \/ adj < 0 - 308
               \/ adj = 0 - 308 /\ LexGreater(DblMinDigits, PadTo(mant, 17))
  IN  IF man.ni + man.nf > 0
      THEN [ptr_end |-> p + man.len + ex.len,
            erange |-> ~zero /\ (over \/ under),
            val |-> [neg |-> neg, mant |-> mant, exp10 |-> IF zero THEN 0 ELSE ex.e - man.nf]]
      ELSE IF HasWordAt(str, p, <<"i","n","f","i","n","i","t","y">>, <<"I","N","F","I","N","I","T","Y">>)
        THEN [ptr_end |-> p + 8, erange |-> FALSE, val |-> [neg |-> neg, mant |-> <<"i","n","f">>, exp10 |-> 0]]
      ELSE IF HasWordAt(str, p, <<"i","n","f">>, <<"I","N","F">>)
        THEN [ptr_end |-> p + 3, erange |-> FALSE, val |-> [neg |-> neg, mant |-> <<"i","n","f">>, exp10 |-> 0]]
      ELSE IF HasWordAt(str, p, <<"n","a","n">>, <<"N","A","N">>)
        THEN [ptr_end |-> p + 3, erange |-> FALSE, val |-> [neg |-> neg, mant |-> <<"n","a","n">>, exp10 |-> 0]]
      ELSE [ptr_end |-> 0, erange |-> FALSE, val |-> [neg |-> FALSE, mant |-> <<"0">>, exp10 |-> 0]]

\* the number after the whitespace and the sign, at 0-based position p
strtod_from(str, p, neg) ==
  LET man == Scan_Mantissa(str, p)
  IN  strtod_result(str, p, neg, man, Scan_Exponent(str, p + man.len))

strtod(str) ==
  LET ws == RunLen(str, 0, SpaceChars)
  IN  strtod_from(str, ws + (IF At(str, ws) \in {"+", "-"} THEN 1 ELSE 0), At(str, ws) = "-")

\* val is assigned strtod's result before the checks
try_double_(str) ==
  [err |-> Conversion_Err(str, strtod(str)), val |-> strtod(str).val]

try_string_(str) == [err |-> "none", val |-> str]

(***************************************************************************)
(* The inputs of the model: the physical lines a parameter file is made    *)
(* of, and the command-line tokens.                                        *)
(***************************************************************************)
\* a line of more than sizeof(buff) - 1 characters: "b=xx...x[a]\n", whose
\* first BuffSize - 1 characters are "b=" and BuffSize - 3 times 'x'
LongLine ==
  <<"b", "=">> \o [i \in 1..(BuffSize - 3) |-> "x"] \o <<"[", "a", "]", "\n">>

\* a comment of more than sizeof(buff) - 1 characters: "#xx...xa=1\n", whose
\* first BuffSize - 1 characters are '#' and BuffSize - 2 times 'x'
LongComment ==
  <<"#">> \o [i \in 1..(BuffSize - 2) |-> "x"] \o <<"a", "=", "1", "\n">>

FileLines ==
  { <<"a", "=", "1", "\n">>,
    <<"b", "=", " ", "t", "r", "u", "e", " ", "\n">>,
    <<"a", "=", " ", "\n">>,
    <<"a", " ", "=", " ", "1", "\n">>,
    <<"a", ".", "b", "=", "1", "\n">>,
    <<"[", "a", "]", "\n">>,
    <<"[", "a", ".", "b", "]", " ", "\n">>,
    <<"[", "a", ".", ".", "b", "]", "\n">>,
    <<"[", "b", "!", "]", "\n">>,
    <<"#", "a", "=", "1", "\n">>,
    <<"\n">>,
    <<"b", "\n">>,
    <<"b", "=">>,
    LongLine,
    LongComment }

ArgTokens ==
  { <<"a", "=", "2">>,
    <<"a", "=", " ", "1">>,
    <<"a", ".", "b", "=", "2", " ">>,
    <<"b", " ", "=", "2">>,
    <<"a", ".", "=", "2">>,
    <<"b">> }

\* the parameter names the accessors are called with: "z" is in no input
Missing == <<"z">>

Types == {"bool", "int64_t", "double", "string"}

\* the default_val handed to value_or, one per type
DefaultVal(T) ==
  CASE T = "bool" -> TRUE
    [] T = "int64_t" -> [neg |-> FALSE, digits |-> <<"7">>]
    [] T = "double" -> [neg |-> FALSE, mant |-> <<"7">>, exp10 |-> 0]
    [] T = "string" -> <<"d">>

(***************************************************************************)
(* The state.  pc is where the program is: "file" (the constructor reads   *)
(* the file), "cli" (it reads the command line), "ready" (the map is       *)
(* constructed), "throw" (the constructor threw std::runtime_error),       *)
(* "returned" (an accessor returned to its caller) or "abort"              *)
(* (CHOLLA_ERROR ended the program).                                       *)
(***************************************************************************)
VARIABLES
  pc,                \* the program's position
  err,               \* the exception or fatal error raised: <<kind, details>>
  rest,              \* the part of the current physical line fgets has not returned yet
  more,              \* whether the file holds lines after the current one
  nread,             \* the number of physical lines read
  cur_table_header,  \* the constructor's cur_table_header
  explicit_tables,   \* the constructor's explicit_tables
  all_tables,        \* the constructor's all_tables
  entries_,          \* ParameterMap::entries_ : name -> [param_str, accessed]
  argi,              \* the constructor's i, the number of tokens read
  last,              \* the last step: its operation, its input and what it returned
  hist,              \* history of the input: see Init
  conv               \* a call of a function that involves no map: see ConvInit, ExactInit

\* the variables of the ParameterMap and of its construction
param_vars == <<pc, err, rest, more, nread, cur_table_header, explicit_tables, all_tables,
                entries_, argi, last, hist>>

\* the variables of the computations that involve no ParameterMap
calc_vars == <<conv>>

vars == <<param_vars, calc_vars>>

\* the constructor's state, as one record
State ==
  [pc |-> pc, err |-> err, cur_table_header |-> cur_table_header,
   explicit_tables |-> explicit_tables, all_tables |-> all_tables, entries_ |-> entries_]

\* throw std::runtime_error(msg)
Throw(st, msg) == [st EXCEPT !.pc = "throw", !.err = <<"runtime_error", msg>>]

\* a faulty variant of Assign: an existing entry is kept (std::map::insert)
Assign_KeepExisting(entries, name, value_str) ==
  IF name \in DOMAIN entries THEN entries
  ELSE (name :> [param_str |-> value_str, accessed |-> FALSE]) @@ entries

\* entries_[name] = {value_str, false}
Assign(entries, name, value_str) ==
  (name :> [param_str |-> value_str, accessed |-> FALSE]) @@ entries

(***************************************************************************)
(* One iteration of the constructor's loop over the file, on the buffer    *)
(* fgets filled.                                                           *)
(***************************************************************************)
\* a faulty variant of Already_Declared: a repeated heading is not detected
Already_Declared_Never(header, tables) == FALSE

\* explicit_tables.find(cur_table_header) != explicit_tables.end()
Already_Declared(header, tables) == header \in tables

\* the branch for a buffer that starts with '['
Parse_Header(buff, st) ==
  LET view == rstrip(buff)
      header == Substr(view, 1, Len(view) - 2)
      st1 == [st EXCEPT !.cur_table_header = header]
      r == Process_Full_Name(header, st.all_tables, DOMAIN st.entries_)
  IN  IF view[Len(view)] # "]"
        THEN Throw(st, "problem parsing a parameter-table header")
      ELSE IF Len(header) = 0
        THEN Throw(st1, "empty parameter-table headers (e.g. []) aren't allowed")
      ELSE IF Already_Declared(header, st.explicit_tables)
        THEN Throw(st1, "the header appears more than once")
      ELSE IF header \in DOMAIN st.entries_
        THEN Throw(st1, "the header collides with a parameter of the same name")
      ELSE IF r.msg # ""
        THEN Throw([st1 EXCEPT !.all_tables = r.tables], r.msg)
      ELSE [st1 EXCEPT !.explicit_tables = @ \cup {header},
                       !.all_tables = r.tables \cup {header}]

\* full_param_name: the heading in force and a '.', when there is one, then the key
Full_Param_Name(header, key) ==
  (IF header # <<>> THEN header \o Dot ELSE <<>>) \o key

\* a faulty variant of Parse_Key_Value: a '.' in the key is not refused
Parse_Key_Value_Dotted(buff, st) ==
  LET kv_pair == Try_Extract_Key_Value_View(buff)
      value == my_trim(kv_pair.value)
      full_param_name == Full_Param_Name(st.cur_table_header, kv_pair.key)
      r == Process_Full_Name(full_param_name, st.all_tables, DOMAIN st.entries_)
  IN  IF kv_pair.key = <<>> THEN st
      ELSE IF r.msg = ""
        THEN [st EXCEPT !.all_tables = r.tables,
                        !.entries_ = Assign(@, full_param_name, value)]
      ELSE Throw([st EXCEPT !.all_tables = r.tables], r.msg)

\* the branch for any other buffer: a name/value pair
Parse_Key_Value(buff, st) ==
  LET kv_pair == Try_Extract_Key_Value_View(buff)
      value == my_trim(kv_pair.value)
      full_param_name == Full_Param_Name(st.cur_table_header, kv_pair.key)
      r == Process_Full_Name(full_param_name, st.all_tables, DOMAIN st.entries_)
  IN  IF kv_pair.key = <<>> THEN st
      ELSE IF Find(kv_pair.key, ".") # npos
        THEN Throw(st, "the parameter contains a '.'")
      ELSE IF r.msg = ""
        THEN [st EXCEPT !.all_tables = r.tables,
                        !.entries_ = Assign(@, full_param_name, value)]
      ELSE Throw([st EXCEPT !.all_tables = r.tables], r.msg)

Parse_Line(buff, st) ==
  IF buff[1] \in {"\n", "#", ";"} THEN st
  ELSE IF buff[1] = "[" THEN Parse_Header(buff, st)
  ELSE Parse_Key_Value(buff, st)

\* a faulty variant of Parse_Arg: the entry a token sets counts as accessed
Parse_Arg_Accessed(arg, st) ==
  LET kv_pair == Try_Extract_Key_Value_View(arg)
      value_str == my_trim(kv_pair.value)
      r == Process_Full_Name(kv_pair.key, st.all_tables, DOMAIN st.entries_)
  IN  IF kv_pair.key = <<>> THEN st
      ELSE IF r.msg # "" THEN Throw([st EXCEPT !.all_tables = r.tables], r.msg)
      ELSE [st EXCEPT !.all_tables = r.tables,
                      !.entries_ = (kv_pair.key :> [param_str |-> value_str, accessed |-> TRUE]) @@ @]

\* one iteration of the loop over argv
Parse_Arg(arg, st) ==
  LET kv_pair == Try_Extract_Key_Value_View(arg)
      value_str == my_trim(kv_pair.value)
      r == Process_Full_Name(kv_pair.key, st.all_tables, DOMAIN st.entries_)
  IN  IF kv_pair.key = <<>> THEN st
      ELSE IF r.msg # "" THEN Throw([st EXCEPT !.all_tables = r.tables], r.msg)
      ELSE [st EXCEPT !.all_tables = r.tables,
                      !.entries_ = Assign(@, kv_pair.key, value_str)]

(***************************************************************************)
(* fgets(buff, sizeof buff, fp): at most BuffSize - 1 characters, up to    *)
(* and including the first newline.                                        *)
(***************************************************************************)
FgetsLen(text) ==
  LET nl == Find(text, "\n")
      upto == IF nl = npos THEN Len(text) ELSE nl + 1
  IN  Min(upto, BuffSize - 1)

(***************************************************************************)
(* History of the input, kept for the properties: lineHeading is the text  *)
(* of the last physical line that is a [T] heading ("" before the first),  *)
(* headings the texts of the heading lines read, dup whether one of them   *)
(* was read twice, fileEntries the entries when the file ended, argv the   *)
(* tokens read, read the parameters that value or value_or returned the    *)
(* value of.                                                               *)
(***************************************************************************)
IsHeadingLine(line) ==
  LET v == rstrip(line) IN line[1] = "[" /\ v[Len(v)] = "]"

\* the text T of a physical heading line "[T]", trailing whitespace dropped
HeadingText(line) ==
  LET v == rstrip(line) IN SubSeq(v, 2, Len(v) - 1)

HistAfterLine(line) ==
  IF IsHeadingLine(line)
  THEN [hist EXCEPT !.lineHeading = HeadingText(line),
                    !.headings = @ \cup {HeadingText(line)},
                    !.dup = @ \/ HeadingText(line) \in hist.headings]
  ELSE hist

\* the history before any input is read
NoHist ==
  [lineHeading |-> <<>>, headings |-> {}, dup |-> FALSE,
   fileEntries |-> <<>>, argv |-> <<>>, read |-> {}]

\* no function is called outside the map
NoConv == [fn |-> "none"]

Init ==
  /\ pc = "file"
  /\ err = <<"none">>
  /\ rest = <<>>
  /\ more = TRUE
  /\ nread = 0
  /\ cur_table_header = <<>>
  /\ explicit_tables = {}
  /\ all_tables = {}
  /\ entries_ = <<>>
  /\ argi = 0
  /\ last = [op |-> "none"]
  /\ hist = NoHist
  /\ conv = NoConv

\* the constructor's variables take the values of record st
Becomes(st) ==
  /\ pc' = st.pc
  /\ err' = st.err
  /\ cur_table_header' = st.cur_table_header
  /\ explicit_tables' = st.explicit_tables
  /\ all_tables' = st.all_tables
  /\ entries_' = st.entries_
  /\ UNCHANGED calc_vars

\* fgets returns the start of the next physical line of the file
ReadLine ==
  \E line \in FileLines :
    LET n == FgetsLen(line) IN
    /\ pc = "file" /\ rest = <<>> /\ more /\ nread < MaxLines
    /\ nread' = nread + 1
    /\ more' = (line[Len(line)] = "\n")
    /\ rest' = SubstrFrom(line, n)
    /\ hist' = HistAfterLine(line)
    /\ last' = [op |-> "line", buff |-> Substr(line, 0, n), start |-> TRUE, line |-> line]
    /\ Becomes(Parse_Line(Substr(line, 0, n), State))
    /\ UNCHANGED argi

\* fgets returns what is left of a line longer than the buffer
ReadRest ==
  LET n == FgetsLen(rest) IN
  /\ pc = "file" /\ rest # <<>>
  /\ rest' = SubstrFrom(rest, n)
  /\ last' = [op |-> "line", buff |-> Substr(rest, 0, n), start |-> FALSE,
               line |-> last.line]
  /\ Becomes(Parse_Line(Substr(rest, 0, n), State))
  /\ UNCHANGED <<more, nread, argi, hist>>

\* fgets returns NULL: the loop over argv starts
EndOfFile ==
  /\ pc = "file" /\ rest = <<>>
  /\ pc' = "cli"
  /\ last' = [op |-> "eof"]
  /\ hist' = [hist EXCEPT !.fileEntries = entries_]
  /\ UNCHANGED <<err, rest, more, nread, cur_table_header, explicit_tables,
                 all_tables, entries_, argi, calc_vars>>

\* one iteration of the loop over argv
ReadArg ==
  \E arg \in ArgTokens :
    /\ pc = "cli" /\ argi < MaxArgs
    /\ argi' = argi + 1
    /\ hist' = [hist EXCEPT !.argv = Append(@, arg)]
    /\ last' = [op |-> "arg", arg |-> arg]
    /\ Becomes(Parse_Arg(arg, State))
    /\ UNCHANGED <<rest, more, nread>>

\* i reaches argc: the constructor returns, its local variables are destroyed
\* and only entries_ is left
Constructed ==
  /\ pc = "cli"
  /\ pc' = "ready"
  /\ last' = [op |-> "constructed"]
  /\ cur_table_header' = <<>>
  /\ explicit_tables' = {}
  /\ all_tables' = {}
  /\ argi' = 0
  /\ nread' = 0
  /\ more' = TRUE
  /\ hist' = NoHist
  /\ UNCHANGED <<err, rest, entries_, calc_vars>>

Construct == ReadLine \/ ReadRest \/ EndOfFile \/ ReadArg \/ Constructed

(***************************************************************************)
(* The accessors of a constructed map.                                     *)
(***************************************************************************)
\* the conversion try_get_ selects for the template type T
Convert(T, str) ==
  CASE T = "bool" -> try_bool_(str)
    [] T = "int64_t" -> try_int64_(str)
    [] T = "double" -> try_double_(str)
    [] T = "string" -> try_string_(str)

\* Report_TypeErr_'s text for a TypeErr
TypeErrReason(type_convert_err) ==
  CASE type_convert_err = "none" -> ""
    [] type_convert_err = "generic" -> "invalid value"
    [] type_convert_err = "boolean" -> "boolean values must be true or false"
    [] type_convert_err = "out_of_range" -> "out of range"

\* a faulty variant of Mark_Accessed: the access is not recorded
Mark_Accessed_Not(entries, param) == entries

\* (keyvalue_pair->second).accessed = true
Mark_Accessed(entries, param) == [entries EXCEPT ![param].accessed = TRUE]

\* the last branch of try_get_: formatted_type_err_ ends the program
On_Type_Mismatch(entries, param, T, type_convert_err) ==
  [has_value |-> FALSE, val |-> "none", abort |-> TRUE,
   err |-> <<"type", T, TypeErrReason(type_convert_err)>>, entries |-> entries]

\* try_get_ once the parameter is found and its string converted: out is the
\* TypeErr and the value of the conversion
try_get_Converted(entries, T, param, is_type_check, out) ==
  IF is_type_check
  THEN [has_value |-> out.err = "none", val |-> out.val, abort |-> FALSE,
        err |-> <<"none">>, entries |-> entries]
  ELSE IF out.err = "none"
  THEN [has_value |-> TRUE, val |-> out.val, abort |-> FALSE,
        err |-> <<"none">>, entries |-> Mark_Accessed(entries, param)]
  ELSE On_Type_Mismatch(entries, param, T, out.err)

\* a faulty variant of try_get_: the lookup is entries_[param], which adds an
\* empty entry for a parameter that is not in the map
try_get_Inserting(entries, T, param, is_type_check) ==
  IF param \notin DOMAIN entries
  THEN [has_value |-> FALSE, val |-> "none", abort |-> FALSE, err |-> <<"none">>,
        entries |-> (param :> [param_str |-> <<>>, accessed |-> FALSE]) @@ entries]
  ELSE try_get_Converted(entries, T, param, is_type_check,
                         Convert(T, entries[param].param_str))

(***************************************************************************)
(* try_get_<T>(param, is_type_check): the optional returned (has_value,    *)
(* val), whether the program aborts, and the entries as the call leaves    *)
(* them.                                                                   *)
(***************************************************************************)
try_get_(entries, T, param, is_type_check) ==
  IF param \notin DOMAIN entries
  THEN [has_value |-> FALSE, val |-> "none", abort |-> FALSE, err |-> <<"none">>,
        entries |-> entries]
  ELSE try_get_Converted(entries, T, param, is_type_check,
                         Convert(T, entries[param].param_str))

\* the parameter names the accessors are called with
QueryNames == DOMAIN entries_ \cup {Missing}

\* an accessor call ends: it returned ret, or CHOLLA_ERROR ended the program
Returns(call, r) ==
  /\ pc' = IF r.abort THEN "abort" ELSE "returned"
  /\ err' = r.err
  /\ entries_' = r.entries
  /\ last' = [call EXCEPT !.aborted = r.abort]
  /\ hist' = IF call.op \in {"value", "value_or"} /\ ~r.abort /\ call.param \in DOMAIN entries_
             THEN [hist EXCEPT !.read = @ \cup {call.param}]
             ELSE hist
  /\ UNCHANGED <<rest, more, nread, cur_table_header, explicit_tables, all_tables, argi,
                 calc_vars>>

Callable == pc = "ready"

size ==
  /\ Callable
  /\ Returns([op |-> "size", ret |-> Cardinality(DOMAIN entries_), aborted |-> FALSE],
             [abort |-> FALSE, err |-> err, entries |-> entries_])

has_param ==
  \E param \in QueryNames :
    /\ Callable
    /\ Returns([op |-> "has_param", param |-> param,
                ret |-> param \in DOMAIN entries_, aborted |-> FALSE],
               [abort |-> FALSE, err |-> err, entries |-> entries_])

param_has_type ==
  /\ Callable
  /\ \E T \in Types, param \in QueryNames :
     \E r \in {try_get_(entries_, T, param, TRUE)} :
       Returns([op |-> "param_has_type", T |-> T, param |-> param,
                ret |-> r.has_value, aborted |-> FALSE], r)

\* a faulty variant of value: the empty result of try_get_ is handed back
value_Unchecked ==
  /\ Callable
  /\ \E T \in Types, param \in QueryNames :
     \E r \in {try_get_(entries_, T, param, FALSE)} :
       Returns([op |-> "value", T |-> T, param |-> param,
                ret |-> r.val, aborted |-> FALSE], r)

\* value<T>(param): CHOLLA_ERROR when the result of try_get_ is empty
value ==
  /\ Callable
  /\ \E T \in Types, param \in QueryNames :
     \E r \in {try_get_(entries_, T, param, FALSE)} :
       Returns([op |-> "value", T |-> T, param |-> param,
                ret |-> r.val, aborted |-> FALSE],
               IF ~r.abort /\ ~r.has_value
               THEN [r EXCEPT !.abort = TRUE, !.err = <<"not specified">>]
               ELSE r)

\* value_or(param, default_val): try_get_<T>(param, false).value_or(default_val)
value_or ==
  /\ Callable
  /\ \E T \in Types, param \in QueryNames :
     \E r \in {try_get_(entries_, T, param, FALSE)} :
       Returns([op |-> "value_or", T |-> T, param |-> param,
                ret |-> IF r.has_value THEN r.val ELSE DefaultVal(T),
                defaulted |-> ~r.has_value, aborted |-> FALSE], r)

\* the entries warn_unused_parameters counts
Unused(entries, ignore_params) ==
  {name \in DOMAIN entries : ~entries[name].accessed /\ name \notin ignore_params}

\* a faulty variant of Abort_On_Unused: the fatal error is never raised
Abort_On_Unused_Never(unused_params, abort_on_warning) == FALSE

\* whether the loop reaches CHOLLA_ERROR: at the first unused entry, when
\* abort_on_warning is set
Abort_On_Unused(unused_params, abort_on_warning) ==
  abort_on_warning /\ unused_params > 0

\* the ignore_params warn_unused_parameters is called with
IgnoreSets == SUBSET QueryNames

warn_unused_parameters ==
  \E ignore_params \in IgnoreSets, abort_on_warning \in BOOLEAN,
     suppress_warning_msg \in BOOLEAN :
    LET unused_params == Cardinality(Unused(entries_, ignore_params))
        fatal == Abort_On_Unused(unused_params, abort_on_warning)
    IN
    /\ Callable
    /\ Returns([op |-> "warn_unused_parameters", ignore_params |-> ignore_params,
                abort_on_warning |-> abort_on_warning,
                ret |-> unused_params,
                printed |-> IF fatal \/ suppress_warning_msg THEN 0 ELSE unused_params,
                aborted |-> FALSE],
               [abort |-> fatal,
                err |-> IF fatal THEN <<"unknown parameter">> ELSE err,
                entries |-> entries_])

\* the caller takes the value an accessor returned and goes on
Resume ==
  /\ pc = "returned"
  /\ pc' = "ready"
  /\ last' = [op |-> "resumed"]
  /\ UNCHANGED <<err, rest, more, nread, cur_table_header, explicit_tables, all_tables,
                 entries_, argi, hist, calc_vars>>

Access ==
  size \/ has_param \/ param_has_type \/ value \/ value_or \/ warn_unused_parameters \/ Resume

Next == Construct \/ Access

Spec == Init /\ [][Next]_vars

(***************************************************************************)
(* The conversion functions called by themselves, on strings that need not *)
(* be the value of a parameter.  conv is the call: the function, its       *)
(* argument str and, once it has returned, the TypeErr err it returned and *)
(* the value val of its output argument.                                   *)
(***************************************************************************)
\* the longest string of BoolChars try_bool_ is called with
MaxBoolLen == 5

BoolChars == {"t", "r", "u", "e", "f", "a", "l", "s"}

\* the strings try_bool_ is called with: every string of BoolChars up to
\* MaxBoolLen, and spellings with capitals, digits and whitespace
BoolStrings ==
  UNION {[1..n -> BoolChars] : n \in 0..MaxBoolLen} \cup
  { <<"T", "r", "u", "e">>, <<"T", "R", "U", "E">>, <<"F", "a", "l", "s", "e">>,
    <<"t", "r", "u", "e", " ">>, <<" ", "t", "r", "u", "e">>, <<"f", "a", "l", "s", "e", "\n">>,
    <<"1">>, <<"0">>, <<"y", "e", "s">>, <<"n", "o">> }

\* the ParameterMap variables of a program that constructs no map
ParamIdle ==
  /\ pc = "file" /\ err = <<"none">> /\ rest = <<>> /\ more = TRUE /\ nread = 0
  /\ cur_table_header = <<>> /\ explicit_tables = {} /\ all_tables = {}
  /\ entries_ = <<>> /\ argi = 0 /\ last = [op |-> "none"] /\ hist = NoHist

ConvInit ==
  /\ ParamIdle
  /\ \E str \in BoolStrings : conv = [fn |-> "try_bool_", str |-> str, done |-> FALSE]

\* bool val; TypeErr err = try_bool_(str, val);
Call_try_bool_ ==
  /\ conv.fn = "try_bool_" /\ ~conv.done
  /\ conv' = [fn |-> "try_bool_", str |-> conv.str, done |-> TRUE,
              err |-> try_bool_(conv.str).err, val |-> try_bool_(conv.str).val]
  /\ UNCHANGED param_vars

ConvNext == Call_try_bool_

ConvSpec == ConvInit /\ [][ConvNext]_vars

(***************************************************************************)
(* Real numbers (Real is double).  A value of the model is a rational      *)
(* number n/d held exactly, or a class of values whose magnitude is not    *)
(* followed: "pos" and "neg" (finite, not zero), "eps" (positive and below  *)
(* every positive number that is held exactly), "pinf" and "ninf" (the     *)
(* infinities) and "nan".  A set of values stands for a Real that is one   *)
(* of them; an operation on sets yields every result IEEE arithmetic can   *)
(* give on members of its operands.  Rounding, overflow and underflow of   *)
(* finite operands are not followed: a finite result that is not exactly   *)
(* representable within ExactLimit is only known by its sign.              *)
(***************************************************************************)
\* the largest numerator and denominator that are held exactly
ExactLimit == 30000

Abs(x) == IF x < 0 THEN 0 - x ELSE x

RECURSIVE GCD(_, _)
GCD(a, b) == IF b = 0 THEN a ELSE GCD(b, a % b)

\* a value of a class
Cls(c) == [k |-> c, n |-> 0, d |-> 1]

\* the rational n/d, d # 0, in lowest terms; by its sign when out of range
Q(n, d) ==
  LET g == GCD(Abs(n), Abs(d))
      nn == (IF d < 0 THEN 0 - n ELSE n) \div g
      dd == Abs(d) \div g
  IN  IF Abs(nn) > ExactLimit \/ dd > ExactLimit
      THEN Cls(IF nn > 0 THEN "pos" ELSE "neg")
      ELSE [k |-> "q", n |-> nn, d |-> dd]

\* "nan", "ninf", "neg", "zero", "pos" or "pinf"
SignOf(v) ==
  IF v.k = "q" THEN (IF v.n > 0 THEN "pos" ELSE IF v.n < 0 THEN "neg" ELSE "zero")
  ELSE IF v.k = "eps" THEN "pos"
  ELSE v.k

IsExact(v) == v.k = "q"
IsZero(v) == v.k = "q" /\ v.n = 0
IsInf(v) == v.k \in {"pinf", "ninf"}
IsNeg(v) == SignOf(v) \in {"neg", "ninf"}
IsPos(v) == SignOf(v) \in {"pos", "pinf"}

\* -v
neg1(v) ==
  CASE v.k = "q" -> Q(0 - v.n, v.d)
    [] v.k \in {"pos", "eps"} -> Cls("neg")
    [] v.k = "neg" -> Cls("pos")
    [] v.k = "pinf" -> Cls("ninf")
    [] v.k = "ninf" -> Cls("pinf")
    [] OTHER -> Cls("nan")

\* a + b: the set of its possible values
add1(a, b) ==
  IF a.k = "nan" \/ b.k = "nan" THEN {Cls("nan")}
  ELSE IF IsInf(a) /\ IsInf(b) THEN (IF a.k = b.k THEN {a} ELSE {Cls("nan")})
  ELSE IF IsInf(a) THEN {a}
  ELSE IF IsInf(b) THEN {b}
  ELSE IF IsExact(a) /\ IsExact(b) THEN {Q(a.n * b.d + b.n * a.d, a.d * b.d)}
  ELSE IF IsZero(a) THEN {b}
  ELSE IF IsZero(b) THEN {a}
  ELSE IF SignOf(a) = SignOf(b) THEN {Cls(SignOf(a))}
  ELSE {Cls("neg"), Q(0, 1), Cls("pos")}

\* a * b
mul1(a, b) ==
  IF a.k = "nan" \/ b.k = "nan" THEN {Cls("nan")}
  ELSE IF (IsInf(a) /\ IsZero(b)) \/ (IsZero(a) /\ IsInf(b)) THEN {Cls("nan")}
  ELSE IF IsZero(a) \/ IsZero(b) THEN {Q(0, 1)}
  ELSE IF IsInf(a) \/ IsInf(b)
  THEN {Cls(IF IsNeg(a) = IsNeg(b) THEN "pinf" ELSE "ninf")}
  ELSE IF IsExact(a) /\ IsExact(b) THEN {Q(a.n * b.n, a.d * b.d)}
  ELSE {Cls(IF IsNeg(a) = IsNeg(b) THEN "pos" ELSE "neg")}

\* a / b: x/0 is an infinity for x # 0 and NaN for x = 0 (the zero is +0)
div1(a, b) ==
  IF a.k = "nan" \/ b.k = "nan" THEN {Cls("nan")}
  ELSE IF IsInf(a) /\ IsInf(b) THEN {Cls("nan")}
  ELSE IF IsZero(b)
  THEN (IF IsZero(a) THEN {Cls("nan")} ELSE {Cls(IF IsNeg(a) THEN "ninf" ELSE "pinf")})
  ELSE IF IsInf(b) \/ IsZero(a) THEN {Q(0, 1)}
  ELSE IF IsInf(a) THEN {Cls(IF IsNeg(a) = IsNeg(b) THEN "pinf" ELSE "ninf")}
  ELSE IF IsExact(a) /\ IsExact(b) THEN {Q(a.n * b.d, a.d * b.n)}
  ELSE {Cls(IF IsNeg(a) = IsNeg(b) THEN "pos" ELSE "neg")}

\* the integer square root of a perfect square, -1 for any other number
ISqrt(x) ==
  IF \E r \in 0..174 : r * r = x THEN CHOOSE r \in 0..174 : r * r = x ELSE 0 - 1

\* sqrt(a): NaN below zero
sqrt1(a) ==
  IF a.k = "nan" \/ IsNeg(a) THEN {Cls("nan")}
  ELSE IF a.k = "pinf" THEN {a}
  ELSE IF IsExact(a) /\ ISqrt(a.n) >= 0 /\ ISqrt(a.d) >= 0 THEN {Q(ISqrt(a.n), ISqrt(a.d))}
  ELSE {Cls("pos")}

\* fabs(a)
fabs1(a) == IF IsNeg(a) THEN neg1(a) ELSE a

\* a <= b: the set of its possible truth values (false when either is NaN)
leq1(a, b) ==
  IF a.k = "nan" \/ b.k = "nan" THEN {FALSE}
  ELSE IF a.k = "ninf" \/ b.k = "pinf" THEN {TRUE}
  ELSE IF a.k = "pinf" \/ b.k = "ninf" THEN {FALSE}
  ELSE IF IsExact(a) /\ IsExact(b) THEN {a.n * b.d <= b.n * a.d}
  ELSE IF a.k = "eps" /\ IsExact(b) /\ b.n > 0 THEN {TRUE}
  ELSE IF IsExact(a) /\ a.n > 0 /\ b.k = "eps" THEN {FALSE}
  ELSE IF IsNeg(a) /\ ~IsNeg(b) THEN {TRUE}
  ELSE IF IsZero(a) /\ IsPos(b) THEN {TRUE}
  ELSE IF IsPos(a) /\ ~IsPos(b) THEN {FALSE}
  ELSE IF IsZero(a) /\ IsNeg(b) THEN {FALSE}
  ELSE {TRUE, FALSE}

\* a < b
lt1(a, b) ==
  IF a.k = "nan" \/ b.k = "nan" THEN {FALSE}
  ELSE {~x : x \in leq1(b, a)}

\* the operations on sets of values
Neg(A) == {neg1(a) : a \in A}
Add(A, B) == UNION {add1(a, b) : a \in A, b \in B}
Sub(A, B) == Add(A, Neg(B))
Mul(A, B) == UNION {mul1(a, b) : a \in A, b \in B}
Div(A, B) == UNION {div1(a, b) : a \in A, b \in B}
Sqrt(A) == UNION {sqrt1(a) : a \in A}
Fabs(A) == {fabs1(a) : a \in A}
Leq(A, B) == UNION {leq1(a, b) : a \in A, b \in B}
Lt(A, B) == UNION {lt1(a, b) : a \in A, b \in B}
Geq(A, B) == Leq(B, A)
Gt(A, B) == Lt(B, A)

\* the Real constant n/d
R(n, d) == {Q(n, d)}

\* x^y for an integer y >= 0, by repeated multiplication
RECURSIVE IntPow(_, _)
IntPow(x, y) == IF y = 0 THEN {Q(1, 1)} ELSE Mul({x}, IntPow(x, y - 1))

\* pow(x, y) for an exponent y that is held exactly (every exponent of the
\* solver is a quotient of sums of gamma): pow(1, y) = pow(x, 0) = 1, also
\* for NaN; NaN for a negative x and a y that is not an integer
pow1(x, y) ==
  IF ~IsExact(y) THEN {Cls("nan"), Cls("pos"), Cls("neg"), Q(0, 1)}
  ELSE IF y.n = 0 \/ (IsExact(x) /\ x.n = 1 /\ x.d = 1) THEN {Q(1, 1)}
  ELSE IF x.k = "nan" THEN {Cls("nan")}
  ELSE IF IsZero(x) THEN (IF y.n > 0 THEN {Q(0, 1)} ELSE {Cls("pinf")})
  ELSE IF x.k = "pinf" THEN (IF y.n > 0 THEN {Cls("pinf")} ELSE {Q(0, 1)})
  ELSE IF y.d = 1 /\ Abs(y.n) <= 8
  THEN (IF y.n > 0 THEN IntPow(x, y.n) ELSE Div({Q(1, 1)}, IntPow(x, 0 - y.n)))
  ELSE IF IsPos(x) THEN {Cls("pos")}
  ELSE IF y.d # 1 THEN {Cls("nan")}
  ELSE IF x.k = "ninf"
  THEN (IF y.n < 0 THEN {Q(0, 1)} ELSE {Cls(IF y.n % 2 = 0 THEN "pinf" ELSE "ninf")})
  ELSE {Cls(IF y.n % 2 = 0 THEN "pos" ELSE "neg")}

Pow(A, B) == UNION {pow1(a, b) : a \in A, b \in B}

\* fmax(a, b): the other argument when one is NaN
fmax1(a, b) ==
  IF a.k = "nan" THEN {b}
  ELSE IF b.k = "nan" THEN {a}
  ELSE {IF le THEN b ELSE a : le \in leq1(a, b)}

Fmax(A, B) == UNION {fmax1(a, b) : a \in A, b \in B}

\* X after "if (X < B) X = Y;"
IfLtThen(X, B, Y) ==
  {x \in X : FALSE \in Lt({x}, B)} \cup (IF TRUE \in Lt(X, B) THEN Y ELSE {})

(***************************************************************************)
(* The exact Riemann solver (exact.cpp).  Every Real variable of the code  *)
(* is a set of values, {} before its first assignment.  A branch of the    *)
(* code is followed when its condition can have the outcome that leads to  *)
(* it, with the tested variable narrowed to the values that lead there.    *)
(***************************************************************************)
\* const Real TOL = 1.0e-6
TOL == {Cls("eps")}

\* the smallest pressure (global.h)
TINY_NUMBER == {Cls("eps")}

\* const int nriter = 20
nriter == 20

Zero == R(0, 1)
One == R(1, 1)
Two == R(2, 1)
Half == R(1, 2)

\* the members of X for which "x <= B" can be b
WhereLeq(X, B, b) == {x \in X : b \in Leq({x}, B)}

\* the members of X for which "x >= B" can be b
WhereGeq(X, B, b) == {x \in X : b \in Geq({x}, B)}

\* the members of X for which "x > B" can be b
WhereGt(X, B, b) == {x \in X : b \in Gt({x}, B)}

\* (gamma - 1.0)/(2.0*gamma), (gamma + 1.0)/(2.0*gamma), (gamma - 1.0)/(gamma + 1.0)
G1(gamma) == Div(Sub(gamma, One), Mul(Two, gamma))
G2(gamma) == Div(Add(gamma, One), Mul(Two, gamma))
G6(gamma) == Div(Sub(gamma, One), Add(gamma, One))

\* sqrt((2.0/((gamma + 1.0)*dk)) / (((gamma - 1.0)/(gamma + 1.0))*pk + ppv))
guessp_g(dk, pk, ppv, gamma) ==
  Sqrt(Div(Div(Two, Mul(Add(gamma, One), dk)), Add(Mul(G6(gamma), pk), ppv)))

\* p_0 of guessp, from the ppv that passed "if (ppv < 0.0) ppv = 0.0;"
guessp_p_0(ppv, dl, vxl, pl, dr, vxr, pr, gamma) ==
  Div(Sub(Add(Mul(guessp_g(dl, pl, ppv, gamma), pl), Mul(guessp_g(dr, pr, ppv, gamma), pr)),
          Sub(vxr, vxl)),
      Add(guessp_g(dl, pl, ppv, gamma), guessp_g(dr, pr, ppv, gamma)))

guessp(dl, vxl, pl, cl, dr, vxr, pr, cr, gamma) ==
  IfLtThen(guessp_p_0(IfLtThen(Add(Mul(Half, Add(pl, pr)),
                                   Mul(Mul(Mul(R(1, 8), Sub(vxl, vxr)), Add(dl, dr)), Add(cl, cr))),
                               Zero, Zero),
                      dl, vxl, pl, dr, vxr, pr, gamma),
           Zero, TOL)

\* the rarefaction branch of prefun
prefun_rarefaction(p, dk, pk, ck, gamma) ==
  [f |-> Mul(Mul(Div(Two, Sub(gamma, One)), ck), Sub(Pow(Div(p, pk), G1(gamma)), One)),
   fd |-> Mul(Div(One, Mul(dk, ck)), Pow(Div(p, pk), Neg(G2(gamma))))]

\* qrt of prefun
prefun_qrt(p, dk, pk, gamma) ==
  Sqrt(Div(Div(Div(Two, Add(gamma, One)), dk), Add(Mul(G6(gamma), pk), p)))

\* the shock branch of prefun
prefun_shock(p, dk, pk, ck, gamma) ==
  [f |-> Mul(Sub(p, pk), prefun_qrt(p, dk, pk, gamma)),
   fd |-> Mul(Sub(One, Div(Mul(Half, Sub(p, pk)), Add(Mul(G6(gamma), pk), p))),
              prefun_qrt(p, dk, pk, gamma))]

\* *f and *fd after prefun(f, fd, p, dk, pk, ck, gamma)
prefun(p, dk, pk, ck, gamma) ==
  [f |-> prefun_rarefaction(WhereLeq(p, pk, TRUE), dk, pk, ck, gamma).f
           \cup prefun_shock(WhereLeq(p, pk, FALSE), dk, pk, ck, gamma).f,
   fd |-> prefun_rarefaction(WhereLeq(p, pk, TRUE), dk, pk, ck, gamma).fd
            \cup prefun_shock(WhereLeq(p, pk, FALSE), dk, pk, ck, gamma).fd]

\* what a path of sample assigned to *d, *u and *p
Sampled(path, d, u, p) == {[path |-> path, d |-> d, u |-> u, p |-> p]}

\* the outcomes of a branch whose condition can hold
When(can, outcomes) == IF can THEN outcomes ELSE {}

\* (2.0/(gamma + 1.0))*(c + ((gamma - 1.0)/2.0)*vx)
sample_fan(c, vx, gamma) ==
  Mul(Div(Two, Add(gamma, One)), Add(c, Mul(Div(Sub(gamma, One), Two), vx)))

\* d*(pmk + ((gamma - 1.0)/(gamma + 1.0)))/(pmk*((gamma - 1.0)/(gamma + 1.0)) + 1.0)
sample_shock_d(dk, pmk, gamma) ==
  Div(Mul(dk, Add(pmk, G6(gamma))), Add(Mul(pmk, G6(gamma)), One))

\* ck*sqrt(((gamma + 1.0)/(2.0*gamma))*pmk + ((gamma - 1.0)/(2.0*gamma)))
sample_shock_speed(ck, pmk, gamma) ==
  Mul(ck, Sqrt(Add(Mul(G2(gamma), pmk), G1(gamma))))

\* vm >= 0, pm <= pl, vxl - cl < 0: the star left state or the left fan
sample_left_fan(pm, vm, cml, dl, vxl, pl, cl, gamma) ==
  When(TRUE \in Lt(Sub(vm, cml), Zero),
       Sampled("left star (rarefaction)", Mul(dl, Pow(Div(pm, pl), Div(One, gamma))), vm, pm))
  \cup
  When(FALSE \in Lt(Sub(vm, cml), Zero),
       Sampled("left fan",
               Mul(dl, Pow(Div(sample_fan(cl, vxl, gamma), cl), Div(Two, Sub(gamma, One)))),
               sample_fan(cl, vxl, gamma),
               Mul(pl, Pow(Div(sample_fan(cl, vxl, gamma), cl),
                           Div(Mul(Two, gamma), Sub(gamma, One))))))

\* vm >= 0 and pm <= pl
sample_left_rarefaction(pm, vm, dl, vxl, pl, cl, gamma) ==
  When(TRUE \in Geq(Sub(vxl, cl), Zero), Sampled("left data (rarefaction)", dl, vxl, pl))
  \cup
  When(FALSE \in Geq(Sub(vxl, cl), Zero),
       sample_left_fan(pm, vm, Mul(cl, Pow(Div(pm, pl), G1(gamma))), dl, vxl, pl, cl, gamma))

\* vm >= 0 and not pm <= pl
sample_left_shock(pm, vm, dl, vxl, pl, cl, gamma) ==
  When(TRUE \in Geq(Sub(vxl, sample_shock_speed(cl, Div(pm, pl), gamma)), Zero),
       Sampled("left data (shock)", dl, vxl, pl))
  \cup
  When(FALSE \in Geq(Sub(vxl, sample_shock_speed(cl, Div(pm, pl), gamma)), Zero),
       Sampled("left star (shock)", sample_shock_d(dl, Div(pm, pl), gamma), vm, pm))

\* not vm >= 0, not pm > pr, not vxr + cr <= 0: the star right state or the right fan
\* (cr - x is cr + (-x))
sample_right_fan(pm, vm, cmr, dr, vxr, pr, cr, gamma) ==
  When(TRUE \in Geq(Add(vm, cmr), Zero),
       Sampled("right star (rarefaction)", Mul(dr, Pow(Div(pm, pr), Div(One, gamma))), vm, pm))
  \cup
  When(FALSE \in Geq(Add(vm, cmr), Zero),
       Sampled("right fan",
               Mul(dr, Pow(Div(sample_fan(cr, Neg(vxr), gamma), cr), Div(Two, Sub(gamma, One)))),
               sample_fan(Neg(cr), vxr, gamma),
               Mul(pr, Pow(Div(sample_fan(cr, Neg(vxr), gamma), cr),
                           Div(Mul(Two, gamma), Sub(gamma, One))))))

\* not vm >= 0 and not pm > pr
sample_right_rarefaction(pm, vm, dr, vxr, pr, cr, gamma) ==
  When(TRUE \in Leq(Add(vxr, cr), Zero), Sampled("right data (rarefaction)", dr, vxr, pr))
  \cup
  When(FALSE \in Leq(Add(vxr, cr), Zero),
       sample_right_fan(pm, vm, Mul(cr, Pow(Div(pm, pr), G1(gamma))), dr, vxr, pr, cr, gamma))

\* not vm >= 0 and pm > pr
sample_right_shock(pm, vm, dr, vxr, pr, cr, gamma) ==
  When(TRUE \in Leq(Add(vxr, sample_shock_speed(cr, Div(pm, pr), gamma)), Zero),
       Sampled("right data (shock)", dr, vxr, pr))
  \cup
  When(FALSE \in Leq(Add(vxr, sample_shock_speed(cr, Div(pm, pr), gamma)), Zero),
       Sampled("right star (shock)", sample_shock_d(dr, Div(pm, pr), gamma), vm, pm))

\* vm >= 0: the sampling point lies to the left of the contact discontinuity
sample_left(pm, vm, dl, vxl, pl, cl, gamma) ==
  When(WhereLeq(pm, pl, TRUE) # {},
       sample_left_rarefaction(WhereLeq(pm, pl, TRUE), vm, dl, vxl, pl, cl, gamma))
  \cup
  When(WhereLeq(pm, pl, FALSE) # {},
       sample_left_shock(WhereLeq(pm, pl, FALSE), vm, dl, vxl, pl, cl, gamma))

\* not vm >= 0: the sampling point lies to the right of the contact discontinuity
sample_right(pm, vm, dr, vxr, pr, cr, gamma) ==
  When(WhereGt(pm, pr, TRUE) # {},
       sample_right_shock(WhereGt(pm, pr, TRUE), vm, dr, vxr, pr, cr, gamma))
  \cup
  When(WhereGt(pm, pr, FALSE) # {},
       sample_right_rarefaction(WhereGt(pm, pr, FALSE), vm, dr, vxr, pr, cr, gamma))

\* sample with the left wave told apart by the pressure of the right state
sample_ByRightPressure(pm, vm, dl, vxl, pl, cl, dr, vxr, pr, cr, gamma) ==
  When(WhereGeq(vm, Zero, TRUE) # {},
       sample_left(pm, WhereGeq(vm, Zero, TRUE), dl, vxl, pr, cl, gamma))
  \cup
  When(WhereGeq(vm, Zero, FALSE) # {},
       sample_right(pm, WhereGeq(vm, Zero, FALSE), dr, vxr, pr, cr, gamma))

\* the paths of sample(pm, vm, d, u, p, ...) and what each assigns
sample(pm, vm, dl, vxl, pl, cl, dr, vxr, pr, cr, gamma) ==
  When(WhereGeq(vm, Zero, TRUE) # {},
       sample_left(pm, WhereGeq(vm, Zero, TRUE), dl, vxl, pl, cl, gamma))
  \cup
  When(WhereGeq(vm, Zero, FALSE) # {},
       sample_right(pm, WhereGeq(vm, Zero, FALSE), dr, vxr, pr, cr, gamma))

\* a variable that has not been assigned
Unset == {}

\* cW[j]/cW[k], the velocity of side k (0 left, 1 right) from momentum j
Velocity(cW, j, k) == Div(cW[j + k], cW[k])

\* vx*vx + vy*vy + vz*vz of side k
Velocity_Squared(cW, k) ==
  Add(Add(Mul(Velocity(cW, 2, k), Velocity(cW, 2, k)), Mul(Velocity(cW, 4, k), Velocity(cW, 4, k))),
      Mul(Velocity(cW, 6, k), Velocity(cW, 6, k)))

\* (cW[8 + k] - 0.5*d*(vx*vx + vy*vy + vz*vz)) * (gamma - 1.0)
Derived_Pressure(cW, k, gamma) ==
  Mul(Sub(cW[8 + k], Mul(Mul(Half, cW[k]), Velocity_Squared(cW, k))), Sub(gamma, One))

\* the derived pressure without its floor
Pressure_Unfloored(cW, k, gamma) == Derived_Pressure(cW, k, gamma)

\* pl or pr as the solver uses it
Pressure(cW, k, gamma) == Fmax(Derived_Pressure(cW, k, gamma), TINY_NUMBER)

\* sqrt(gamma*p/d)
Sound_Speed(cW, k, gamma) == Sqrt(Div(Mul(gamma, Pressure(cW, k, gamma)), cW[k]))

\* the call Calculate_Exact_Fluxes(cW, fluxes, gamma) of a build with or without DE
Exact_Call(cW, gamma, DE) ==
  [fn |-> "Calculate_Exact_Fluxes", at |-> "entry", cW |-> cW, gamma |-> gamma, DE |-> DE,
   dl |-> Unset, vxl |-> Unset, vyl |-> Unset, vzl |-> Unset, pl |-> Unset, cl |-> Unset,
   gel |-> Unset,
   dr |-> Unset, vxr |-> Unset, vyr |-> Unset, vzr |-> Unset, pr |-> Unset, cr |-> Unset,
   ger |-> Unset,
   pold |-> Unset, fl |-> Unset, fld |-> Unset, fr |-> Unset, frd |-> Unset, i |-> 0,
   iterations |-> 0,
   pm |-> Unset, um |-> Unset, ds |-> Unset, us |-> Unset, ps |-> Unset,
   path |-> "none", side |-> "none",
   fluxes |-> [j \in 0..5 |-> Unset]]

\* the solver is at position at
Exact_At(at) == conv.fn = "Calculate_Exact_Fluxes" /\ conv.at = at

\* lines 233-254: the primitive variables and the sound speeds
Primitives ==
  /\ Exact_At("entry")
  /\ conv' = [conv EXCEPT
       !.at = "starpu",
       !.dl = conv.cW[0], !.dr = conv.cW[1],
       !.vxl = Velocity(conv.cW, 2, 0), !.vxr = Velocity(conv.cW, 2, 1),
       !.vyl = Velocity(conv.cW, 4, 0), !.vyr = Velocity(conv.cW, 4, 1),
       !.vzl = Velocity(conv.cW, 6, 0), !.vzr = Velocity(conv.cW, 6, 1),
       !.pl = Pressure(conv.cW, 0, conv.gamma), !.pr = Pressure(conv.cW, 1, conv.gamma),
       !.gel = IF conv.DE THEN Velocity(conv.cW, 10, 0) ELSE Unset,
       !.ger = IF conv.DE THEN Velocity(conv.cW, 10, 1) ELSE Unset,
       !.cl = Sound_Speed(conv.cW, 0, conv.gamma), !.cr = Sound_Speed(conv.cW, 1, conv.gamma)]
  /\ UNCHANGED param_vars

\* starpu up to the head of its loop: pstart = guessp(...); pold = pstart; i = 0
Starpu_Guess ==
  /\ Exact_At("starpu")
  /\ conv' = [conv EXCEPT
       !.at = "newton", !.i = 0,
       !.pold = guessp(conv.dl, conv.vxl, conv.pl, conv.cl,
                       conv.dr, conv.vxr, conv.pr, conv.cr, conv.gamma)]
  /\ UNCHANGED param_vars

\* 2.0*fabs((p - pold)/(p + pold))
Change(p, pold) == Mul(Two, Fabs(Div(Sub(p, pold), Add(p, pold))))

\* change <= TOL for the values p and pold.  When one is negative and the
\* other is not, |p - pold| >= |p + pold|: change is at least 2, or NaN
change_leq_TOL(p, pold) ==
  IF p.k # "nan" /\ pold.k # "nan" /\ IsNeg(p) # IsNeg(pold) THEN {FALSE}
  ELSE Leq(Change({p}, {pold}), TOL)

\* the members of p for which "change <= TOL" can be b
WhereConverged(p, pold, b) == {x \in p : \E y \in pold : b \in change_leq_TOL(x, y)}

\* the body of the loop down to the assignment of *p
Newton_Update(c) ==
  [c EXCEPT
     !.iterations = c.iterations + 1,
     !.fl = prefun(c.pold, c.dl, c.pl, c.cl, c.gamma).f,
     !.fld = prefun(c.pold, c.dl, c.pl, c.cl, c.gamma).fd,
     !.fr = prefun(c.pold, c.dr, c.pr, c.cr, c.gamma).f,
     !.frd = prefun(c.pold, c.dr, c.pr, c.cr, c.gamma).fd,
     !.pm = Sub(c.pold,
                Div(Sub(Add(Add(prefun(c.pold, c.dl, c.pl, c.cl, c.gamma).f,
                                prefun(c.pold, c.dr, c.pr, c.cr, c.gamma).f), c.vxr), c.vxl),
                    Add(prefun(c.pold, c.dl, c.pl, c.cl, c.gamma).fd,
                        prefun(c.pold, c.dr, c.pr, c.cr, c.gamma).fd)))]

\* an iteration that ends in "if (change <= TOL) break;"
Newton_Converged ==
  /\ Exact_At("newton") /\ conv.i <= nriter
  /\ \E c \in {Newton_Update(conv)} :
       /\ WhereConverged(c.pm, c.pold, TRUE) # {}
       /\ conv' = [c EXCEPT !.at = "star", !.pm = WhereConverged(c.pm, c.pold, TRUE)]
  /\ UNCHANGED param_vars

\* a faulty variant of Newton_Continue: a negative *p is not replaced by TOL
Newton_Continue_Unfloored ==
  /\ Exact_At("newton") /\ conv.i <= nriter
  /\ \E c \in {Newton_Update(conv)} :
       /\ WhereConverged(c.pm, c.pold, FALSE) # {}
       /\ conv' = [c EXCEPT
            !.i = c.i + 1,
            !.pm = WhereConverged(c.pm, c.pold, FALSE),
            !.pold = WhereConverged(c.pm, c.pold, FALSE)]
  /\ UNCHANGED param_vars

\* an iteration that goes on: if (*p < 0.0) *p = TOL; pold = *p; i++
Newton_Continue ==
  /\ Exact_At("newton") /\ conv.i <= nriter
  /\ \E c \in {Newton_Update(conv)} :
       /\ WhereConverged(c.pm, c.pold, FALSE) # {}
       /\ conv' = [c EXCEPT
            !.i = c.i + 1,
            !.pm = IfLtThen(WhereConverged(c.pm, c.pold, FALSE), Zero, TOL),
            !.pold = IfLtThen(WhereConverged(c.pm, c.pold, FALSE), Zero, TOL)]
  /\ UNCHANGED param_vars

\* the loop ends since i <= nriter is false
Newton_Exhausted ==
  /\ Exact_At("newton") /\ ~(conv.i <= nriter)
  /\ conv' = [conv EXCEPT !.at = "star"]
  /\ UNCHANGED param_vars

\* the block with its exit(0) in force
Divergence_Exits(c) == [c EXCEPT !.at = "exit"]

\* if (i > nriter) { }: its printf and exit(0) are commented out
Divergence(c) == c

\* the end of starpu: *u = 0.5*(vxl + vxr + fr - fl)
Star_Velocity ==
  /\ Exact_At("star")
  /\ \E c \in {IF conv.i > nriter THEN Divergence(conv) ELSE conv} :
       conv' = IF c.at = "exit" THEN c
               ELSE [c EXCEPT !.at = "sample",
                              !.um = Mul(Half, Sub(Add(Add(c.vxl, c.vxr), c.fr), c.fl))]
  /\ UNCHANGED param_vars

\* sample(pm, um, &ds, &us, &ps, ...): one of its paths
Sample ==
  /\ Exact_At("sample")
  /\ \E o \in sample(conv.pm, conv.um, conv.dl, conv.vxl, conv.pl, conv.cl,
                     conv.dr, conv.vxr, conv.pr, conv.cr, conv.gamma) :
       conv' = [conv EXCEPT !.at = "fluxes", !.path = o.path,
                            !.ds = o.d, !.us = o.u, !.ps = o.p]
  /\ UNCHANGED param_vars

\* Es without the energy of the transverse motion
Sampled_Energy_Normal(ds, us, ps, vy, vz, gamma) ==
  Add(Div(ps, Sub(gamma, One)), Mul(Mul(Half, ds), Mul(us, us)))

\* (ps/(gamma - 1.0)) + 0.5*ds*(us*us + vy*vy + vz*vz)
Sampled_Energy(ds, us, ps, vy, vz, gamma) ==
  Add(Div(ps, Sub(gamma, One)),
      Mul(Mul(Half, ds), Add(Add(Mul(us, us), Mul(vy, vy)), Mul(vz, vz))))

\* fluxes[0..5] for the sampled state and the transverse state of one side
Flux_Vector(ds, us, ps, vy, vz, ge, gamma) ==
  [j \in 0..5 |->
     CASE j = 0 -> Mul(ds, us)
       [] j = 1 -> Add(Mul(Mul(ds, us), us), ps)
       [] j = 2 -> Mul(Mul(ds, us), vy)
       [] j = 3 -> Mul(Mul(ds, us), vz)
       [] j = 4 -> Mul(Add(Sampled_Energy(ds, us, ps, vy, vz, gamma), ps), us)
       [] j = 5 -> Mul(Mul(ds, us), ge)]

\* lines 275-295 when us >= 0
Fluxes_Left ==
  /\ Exact_At("fluxes") /\ WhereGeq(conv.us, Zero, TRUE) # {}
  /\ conv' = [conv EXCEPT
       !.at = "done", !.side = "left", !.us = WhereGeq(conv.us, Zero, TRUE),
       !.fluxes = Flux_Vector(conv.ds, WhereGeq(conv.us, Zero, TRUE), conv.ps,
                              conv.vyl, conv.vzl, conv.gel, conv.gamma)]
  /\ UNCHANGED param_vars

\* lines 275-295 when us >= 0 is false
Fluxes_Right ==
  /\ Exact_At("fluxes") /\ WhereGeq(conv.us, Zero, FALSE) # {}
  /\ conv' = [conv EXCEPT
       !.at = "done", !.side = "right", !.us = WhereGeq(conv.us, Zero, FALSE),
       !.fluxes = Flux_Vector(conv.ds, WhereGeq(conv.us, Zero, FALSE), conv.ps,
                              conv.vyr, conv.vzr, conv.ger, conv.gamma)]
  /\ UNCHANGED param_vars

\* the state on one side of the interface in conserved variables: density,
\* momentum, total energy and (for DE) internal energy
Side(d, mx, my, mz, E, ge) == [d |-> d, mx |-> mx, my |-> my, mz |-> mz, E |-> E, ge |-> ge]

\* gas at rest, of low and of high pressure
Rest == Side(R(2, 1), R(0, 1), R(2, 1), R(0, 1), R(2, 1), R(1, 1))
Dense == Side(R(1, 1), R(0, 1), R(0, 1), R(0, 1), R(8, 1), R(2, 1))

\* gas moving slower than sound, to the right and to the left
Slow_Right == Side(R(2, 1), R(1, 1), R(2, 1), R(0, 1), R(9, 4), R(1, 1))
Slow_Left == Side(R(2, 1), R(-1, 1), R(2, 1), R(2, 1), R(13, 4), R(1, 1))
Warm_Right == Side(R(1, 1), R(1, 1), R(0, 1), R(0, 1), R(25, 2), R(3, 1))

\* gas moving faster than sound
Fast_Right == Side(R(2, 1), R(4, 1), R(2, 1), R(0, 1), R(6, 1), R(1, 1))
Fast_Left == Side(R(2, 1), R(-4, 1), R(2, 1), R(0, 1), R(6, 1), R(1, 1))

\* two streams that leave a vacuum between them when they part
Stream_Right == Side(R(1, 1), R(19, 1), R(2, 1), R(1, 1), R(185, 1), R(1, 1))
Stream_Left == Side(R(1, 1), R(-21, 1), R(1, 1), R(0, 1), R(223, 1), R(1, 1))

\* states that are not physical: the derived pressure is negative, the
\* energy is negative, the density is zero, the density is negative
Negative_Pressure == Side(R(1, 1), R(2, 1), R(0, 1), R(0, 1), R(1, 1), R(1, 1))
Negative_Energy == Side(R(1, 1), R(0, 1), R(0, 1), R(0, 1), R(-1, 1), R(1, 1))
Zero_Density == Side(R(0, 1), R(0, 1), R(0, 1), R(0, 1), R(0, 1), R(0, 1))
Negative_Density == Side(R(-1, 1), R(1, 1), R(0, 1), R(0, 1), R(1, 1), R(1, 1))

Sides ==
  { Rest, Dense, Slow_Right, Slow_Left, Warm_Right, Fast_Right, Fast_Left, Stream_Right,
    Stream_Left, Negative_Pressure, Negative_Energy, Zero_Density, Negative_Density }

\* the Riemann problems <<left, right>> the solver is called with: every
\* state against itself, shock tubes, colliding and parting streams, and
\* states that are not physical against physical ones
Problems ==
  {<<W, W>> : W \in Sides} \cup
  { <<Dense, Rest>>, <<Rest, Dense>>, <<Slow_Right, Slow_Left>>, <<Slow_Left, Slow_Right>>,
    <<Fast_Right, Rest>>, <<Rest, Fast_Left>>, <<Warm_Right, Dense>>,
    <<Stream_Left, Stream_Right>>, <<Stream_Right, Stream_Left>>,
    <<Negative_Pressure, Rest>>, <<Rest, Negative_Energy>>,
    <<Zero_Density, Rest>>, <<Rest, Negative_Density>> }

\* the ratios of specific heats: 2 and 3/2, whose quotients 2/(gamma - 1)
\* and 2*gamma/(gamma - 1) are computed without rounding
Gammas == {R(2, 1), R(3, 2)}

\* cW[] = {dl, dr, mxl, mxr, myl, myr, mzl, mzr, El, Er, gel, ger}
Conserved(L, Rt) ==
  [j \in 0..11 |->
     CASE j \in {0, 1} -> (IF j % 2 = 0 THEN L ELSE Rt).d
       [] j \in {2, 3} -> (IF j % 2 = 0 THEN L ELSE Rt).mx
       [] j \in {4, 5} -> (IF j % 2 = 0 THEN L ELSE Rt).my
       [] j \in {6, 7} -> (IF j % 2 = 0 THEN L ELSE Rt).mz
       [] j \in {8, 9} -> (IF j % 2 = 0 THEN L ELSE Rt).E
       [] j \in {10, 11} -> (IF j % 2 = 0 THEN L ELSE Rt).ge]

ExactInit ==
  /\ ParamIdle
  /\ \E W \in Problems, gamma \in Gammas, DE \in BOOLEAN :
       conv = Exact_Call(Conserved(W[1], W[2]), gamma, DE)

ExactNext ==
  \/ Primitives
  \/ Starpu_Guess
  \/ Newton_Converged
  \/ Newton_Continue
  \/ Newton_Exhausted
  \/ Star_Velocity
  \/ Sample
  \/ Fluxes_Left
  \/ Fluxes_Right

ExactSpec == ExactInit /\ [][ExactNext]_vars

(***************************************************************************)
(* sample alone: a call of sample for a star state and two data states,    *)
(* together with the calls in which a third state takes the place of the   *)
(* right and of the left one.                                              *)
(***************************************************************************)
\* the primitive variables d, vx, p and c that Calculate_Exact_Fluxes passes for W
Primitive(W, gamma) ==
  [d |-> W.d, vx |-> Velocity(Conserved(W, W), 2, 0),
   p |-> Pressure(Conserved(W, W), 0, gamma), c |-> Sound_Speed(Conserved(W, W), 0, gamma)]

\* the data states, star pressures and star velocities of the calls
Sample_Sides == {Rest, Dense, Fast_Right, Fast_Left}
Sample_Pressures == {R(1, 2), R(1, 1), R(4, 1), R(16, 1)}
Sample_Velocities == {R(-3, 1), R(-1, 2), R(0, 1), R(1, 2)}

SampleInit ==
  /\ ParamIdle
  /\ \E pm \in Sample_Pressures, vm \in Sample_Velocities, gamma \in Gammas,
        L \in Sample_Sides, Rt \in Sample_Sides, W \in Sample_Sides :
       conv = [fn |-> "sample", done |-> FALSE, pm |-> pm, vm |-> vm, gamma |-> gamma,
               left |-> Primitive(L, gamma), right |-> Primitive(Rt, gamma),
               other |-> Primitive(W, gamma),
               out |-> {}, out_other_right |-> {}, out_other_left |-> {}]

\* sample(pm, vm, &d, &u, &p, dl, vxl, pl, cl, dr, vxr, pr, cr, gamma) for the states L and Rt
sample_for(pm, vm, L, Rt, gamma) ==
  sample(pm, vm, L.d, L.vx, L.p, L.c, Rt.d, Rt.vx, Rt.p, Rt.c, gamma)

Call_sample ==
  /\ conv.fn = "sample" /\ ~conv.done
  /\ conv' = [conv EXCEPT
       !.done = TRUE,
       !.out = sample_for(conv.pm, conv.vm, conv.left, conv.right, conv.gamma),
       !.out_other_right = sample_for(conv.pm, conv.vm, conv.left, conv.other, conv.gamma),
       !.out_other_left = sample_for(conv.pm, conv.vm, conv.other, conv.right, conv.gamma)]
  /\ UNCHANGED param_vars

SampleNext == Call_sample

SampleSpec == SampleInit /\ [][SampleNext]_vars

(***************************************************************************)
(* The HLLD test fixture (tMHDCalculateHLLDFluxesCUDA).  A state or a flux *)
(* is the sequence <<density, x-, y-, z-momentum, energy, x-, y-,          *)
(* z-magnetic field>>, followed with DE by the thermal energy (SCALAR is   *)
(* not defined).  The kernel the fixture launches is not part of the       *)
(* sources at hand: it is taken to be direction-agnostic as specified, and *)
(* the flux in the frame of the interface is left uninterpreted.           *)
(***************************************************************************)
\* std::rotate(first, first + shift, first + 3) on the three elements from index first
Rotate3(vec, first, shift) ==
  [j \in DOMAIN vec |->
     IF j \in first..(first + 2) THEN vec[first + ((j - first + shift) % 3)] ELSE vec[j]]

\* the fixture with shift = direction
_cycleXYZ_ByDirection(conservedVec, direction) ==
  IF direction = 0 THEN conservedVec
  ELSE Rotate3(Rotate3(conservedVec, 2, direction), 6, direction)

_cycleXYZ(conservedVec, direction) ==
  IF direction = 0 THEN conservedVec
  ELSE Rotate3(Rotate3(conservedVec, 2, 3 - direction), 6, 3 - direction)

\* the index, from 0, of the axis that is the n-th axis (n from 0) of the
\* frame of an interface normal to axis direction
Axis(direction, n) == (direction + n) % 3

\* the state in the frame of the interface: the normal component first
Interface_Frame(state, direction) ==
  [j \in DOMAIN state |->
     IF j \in 2..4 THEN state[2 + Axis(direction, j - 2)]
     ELSE IF j \in 6..8 THEN state[6 + Axis(direction, j - 6)]
     ELSE state[j]]

\* the flux in the frame of the interface: one uninterpreted value per field
Interface_Flux(left, right, gamma) == [j \in DOMAIN left |-> <<j, left, right, gamma>>]

\* the flux of the frame of the interface laid out along x, y and z
Grid_Frame(flux, direction) ==
  [j \in DOMAIN flux |->
     IF j \in 2..4 THEN flux[2 + ((j - 2 + 3 - direction) % 3)]
     ELSE IF j \in 6..8 THEN flux[6 + ((j - 6 + 3 - direction) % 3)]
     ELSE flux[j]]

\* the flux Calculate_HLLD_Fluxes_CUDA writes for one interface
Calculate_HLLD_Fluxes_CUDA(left, right, gamma, direction) ==
  Grid_Frame(Interface_Flux(Interface_Frame(left, direction),
                            Interface_Frame(right, direction), gamma), direction)

computeFluxes(stateLeft, stateRight, gamma, direction) ==
  Calculate_HLLD_Fluxes_CUDA(_cycleXYZ(stateLeft, direction), _cycleXYZ(stateRight, direction),
                             gamma, direction)

\* the states the fixture is called with, without and with the DE field
Fixture_States(DE) ==
  {IF DE THEN s \o <<9>> ELSE s :
     s \in { <<1, 2, 3, 4, 5, 6, 7, 8>>, <<2, 0, 1, -1, 9, 1, 0, 3>>,
             <<1, 1, 1, 1, 4, 0, 0, 0>>, <<3, -2, 5, 0, 7, 2, 2, 1>> }}

Directions == {0, 1, 2}

FixtureInit ==
  /\ ParamIdle
  /\ \E DE \in BOOLEAN, gamma \in Gammas, direction \in Directions :
       \E stateLeft \in Fixture_States(DE), stateRight \in Fixture_States(DE) :
         conv = [fn |-> "computeFluxes", done |-> FALSE, stateLeft |-> stateLeft,
                 stateRight |-> stateRight, gamma |-> gamma, direction |-> direction,
                 testFlux |-> <<>>, fiducialFlux |-> <<>>]

\* the flux for the direction, and the flux of direction 0 as the fiducial flux
Call_computeFluxes ==
  /\ conv.fn = "computeFluxes" /\ ~conv.done
  /\ conv' = [conv EXCEPT
       !.done = TRUE,
       !.testFlux = computeFluxes(conv.stateLeft, conv.stateRight, conv.gamma, conv.direction),
       !.fiducialFlux = computeFluxes(conv.stateLeft, conv.stateRight, conv.gamma, 0)]
  /\ UNCHANGED param_vars

FixtureNext == Call_computeFluxes

FixtureSpec == FixtureInit /\ [][FixtureNext]_vars

(***************************************************************************)
(* Grav3D (src/gravity/grav3D.cpp): Initialize, the allocation and the     *)
(* release of its host buffers.  conv is the object and the call: the      *)
(* compile flags in force, the arguments (init and nfile of *P, the local  *)
(* numbers of cells), the fields of the object, its buffers, the calls     *)
(* made so far (trace), and at, the position: "Initialize" (entered),      *)
(* "allocate", "allocate_gpu", "values", "poisson", "restart" (before the  *)
(* call named), "initialized" (Initialize returned) or "freed"             *)
(* (FreeMemory_CPU returned).                                              *)
(*                                                                         *)
(* A buffer is a record: allocs and frees count the calls of malloc and    *)
(* free on its pointer, data is its content, a function on 0..size-1.      *)
(* The constructor Grav3D(void) {} sets no field and malloc sets no        *)
(* element: both hold junk, any value of Junk, until they are assigned.    *)
(***************************************************************************)
\* the largest nx_local, ny_local and nz_local Initialize is called with
MaxLocal == 2
\* the largest P->nfile Initialize is called with
MaxFile == 1

\* N_GHOST_POTENTIAL of global.h
N_GHOST_POTENTIAL == 3

\* what memory that was never written may hold
Junk == {0, 7}

\* the compile flags that grav3D.cpp tests
Grav_Flags ==
  {"GRAVITY_GPU", "GRAV_ISOLATED_BOUNDARY_X", "GRAV_ISOLATED_BOUNDARY_Y",
   "GRAV_ISOLATED_BOUNDARY_Z", "GRAVITY_ANALYTIC_COMP"}

\* the values of P->init
Grav_Inits == {"Read_Grid", "Spherical_Overdensity_3D", "Riemann"}

\* the host buffers of Grav3D
Host_Buffers ==
  {"density_h", "potential_h", "potential_1_h", "boundary_flags",
   "pot_boundary_x0", "pot_boundary_x1", "pot_boundary_y0", "pot_boundary_y1",
   "pot_boundary_z0", "pot_boundary_z1", "analytic_potential_h"}

\* the buffers of the device
Device_Buffers == {"density_d", "potential_d", "potential_1_d"}

\* a pointer that no malloc has set
No_Buffer == [allocs |-> 0, frees |-> 0, data |-> <<>>]

\* the pointer of buffer b after malloc(n * sizeof(...)): its elements hold junk
Malloc(b, n, junk) == [b EXCEPT !.allocs = @ + 1, !.data = [id \in 0..(n - 1) |-> junk]]

\* the pointer of buffer b after free
Free(b) == [b EXCEPT !.frees = @ + 1, !.data = <<>>]

\* the object after Grav3D(void) {}, and the arguments of Initialize
Grav_Call(flags, init, nfile, nx, ny, nz, junk) ==
  [fn |-> "Grav3D::Initialize", at |-> "Initialize", flags |-> flags,
   init |-> init, nfile |-> nfile, nx |-> nx, ny |-> ny, nz |-> nz, junk |-> junk,
   nx_local |-> junk, ny_local |-> junk, nz_local |-> junk,
   n_cells |-> junk, n_cells_potential |-> junk,
   INITIAL |-> junk # 0, dt_prev |-> junk, dt_now |-> junk, dens_avrg |-> junk,
   Gconst |-> "junk",
   TRANSFER_POTENTIAL_BOUNDARIES |-> junk # 0, BC_FLAGS_SET |-> junk # 0,
   buffers |-> [b \in Host_Buffers \cup Device_Buffers |-> No_Buffer],
   Poisson_solver |-> "constructed",
   restored |-> [called |-> FALSE],
   trace |-> <<>>]

\* the Grav3D object is at position at
Grav_At(at) == conv.fn = "Grav3D::Initialize" /\ conv.at = at

\* lines 22-84 of Initialize: the fields set before the buffers are allocated
Initialize_Fields ==
  /\ Grav_At("Initialize")
  /\ conv' = [conv EXCEPT
       !.at = "allocate",
       !.nx_local = conv.nx, !.ny_local = conv.ny, !.nz_local = conv.nz,
       !.n_cells = conv.nx * conv.ny * conv.nz,
       !.n_cells_potential = (conv.nx + 2 * N_GHOST_POTENTIAL) * (conv.ny + 2 * N_GHOST_POTENTIAL)
                               * (conv.nz + 2 * N_GHOST_POTENTIAL),
       !.INITIAL = TRUE, !.dt_prev = 0, !.dt_now = 0, !.dens_avrg = 0,
       !.Gconst = IF conv.init = "Spherical_Overdensity_3D" THEN "1" ELSE "GN",
       !.TRANSFER_POTENTIAL_BOUNDARIES = FALSE, !.BC_FLAGS_SET = FALSE]
  /\ UNCHANGED param_vars

\* the buffers AllocateMemory_CPU sets with malloc, and the number of
\* elements of each, for object c
Allocated_Sizes(c) ==
  [b \in {"density_h"} |-> c.n_cells] @@
  [b \in {"potential_h", "potential_1_h"} |-> c.n_cells_potential] @@
  [b \in {"boundary_flags"} |-> 6] @@
  (IF "GRAV_ISOLATED_BOUNDARY_X" \in c.flags
   THEN [b \in {"pot_boundary_x0", "pot_boundary_x1"} |->
           N_GHOST_POTENTIAL * c.ny_local * c.nz_local]
   ELSE <<>>) @@
  (IF "GRAV_ISOLATED_BOUNDARY_Y" \in c.flags
   THEN [b \in {"pot_boundary_y0", "pot_boundary_y1"} |->
           N_GHOST_POTENTIAL * c.nx_local * c.nz_local]
   ELSE <<>>) @@
  (IF "GRAV_ISOLATED_BOUNDARY_Z" \in c.flags
   THEN [b \in {"pot_boundary_z0", "pot_boundary_z1"} |->
           N_GHOST_POTENTIAL * c.nx_local * c.ny_local]
   ELSE <<>>) @@
  (IF "GRAVITY_ANALYTIC_COMP" \in c.flags
   THEN [b \in {"analytic_potential_h"} |-> c.n_cells_potential]
   ELSE <<>>)

AllocateMemory_CPU ==
  /\ Grav_At("allocate")
  /\ conv' = [conv EXCEPT
       !.at = IF "GRAVITY_GPU" \in conv.flags THEN "allocate_gpu" ELSE "values",
       !.trace = Append(@, "AllocateMemory_CPU"),
       !.buffers = [b \in DOMAIN conv.buffers |->
                      IF b \in DOMAIN Allocated_Sizes(conv)
                      THEN Malloc(conv.buffers[b], Allocated_Sizes(conv)[b], conv.junk)
                      ELSE conv.buffers[b]]]
  /\ UNCHANGED param_vars

\* #ifdef GRAVITY_GPU AllocateMemory_GPU(): the buffers of the device
AllocateMemory_GPU ==
  /\ Grav_At("allocate_gpu")
  /\ conv' = [conv EXCEPT
       !.at = "values",
       !.trace = Append(@, "AllocateMemory_GPU"),
       !.buffers = [b \in DOMAIN conv.buffers |->
                      IF b \in Device_Buffers
                      THEN Malloc(conv.buffers[b],
                                  IF b = "density_d" THEN conv.n_cells ELSE conv.n_cells_potential,
                                  conv.junk)
                      ELSE conv.buffers[b]]]
  /\ UNCHANGED param_vars

\* a faulty variant of Zeroed: the loop stops one element early
Zeroed_ButLast(b, n) ==
  [b EXCEPT !.data = [id \in DOMAIN b.data |-> IF id < n - 1 THEN 0 ELSE @[id]]]

\* for (id = 0; id < n; id++) b[id] = 0
Zeroed(b, n) ==
  [b EXCEPT !.data = [id \in DOMAIN b.data |-> IF id < n THEN 0 ELSE @[id]]]

Initialize_values_CPU ==
  /\ Grav_At("values")
  /\ conv' = [conv EXCEPT
       !.at = "poisson",
       !.trace = Append(@, "Initialize_values_CPU"),
       !.buffers.density_h = Zeroed(@, conv.n_cells),
       !.buffers.potential_h = Zeroed(@, conv.n_cells_potential),
       !.buffers.potential_1_h = Zeroed(@, conv.n_cells_potential)]
  /\ UNCHANGED param_vars

\* Poisson_solver.Initialize(...): the solver is set up for the domain
Poisson_solver_Initialize ==
  /\ Grav_At("poisson")
  /\ conv' = [conv EXCEPT
       !.at = "restart",
       !.trace = Append(@, "Poisson_solver.Initialize"),
       !.Poisson_solver = "initialized"]
  /\ UNCHANGED param_vars

\* a faulty variant of Restart_Needed: the number of the file is not looked at
Restart_Needed_AnyFile(init, nfile) == init = "Read_Grid"

\* (strcmp(P->init, "Read_Grid") == 0) && (P->nfile > 0)
Restart_Needed(init, nfile) == init = "Read_Grid" /\ nfile > 0

\* the time step and the value of the potential that a restart file holds
Restart_Values == {5}

\* Read_Restart_HDF5(P, P->nfile): dt_now and the potential of the previous
\* step are read from the file, and the next step extrapolates
Read_Restart_HDF5 ==
  /\ Grav_At("restart") /\ Restart_Needed(conv.init, conv.nfile)
  /\ \E v \in Restart_Values :
       conv' = [conv EXCEPT
         !.at = "initialized",
         !.trace = Append(@, "Read_Restart_HDF5"),
         !.dt_now = v,
         !.INITIAL = FALSE,
         !.buffers.potential_1_h.data = [id \in DOMAIN @ |-> v],
         !.restored = [called |-> TRUE, dt_now |-> v, INITIAL |-> FALSE,
                       potential_1_h |-> [id \in DOMAIN conv.buffers.potential_1_h.data |-> v]]]
  /\ UNCHANGED param_vars

\* Initialize returns without a restart
Initialize_Returns ==
  /\ Grav_At("restart") /\ ~Restart_Needed(conv.init, conv.nfile)
  /\ conv' = [conv EXCEPT !.at = "initialized"]
  /\ UNCHANGED param_vars

\* a faulty variant of Released: the buffer of the analytic potential is kept
Released_NoAnalytic(flags) ==
  {"density_h", "potential_h", "potential_1_h", "boundary_flags"} \cup
  (IF "GRAV_ISOLATED_BOUNDARY_X" \in flags THEN {"pot_boundary_x0", "pot_boundary_x1"} ELSE {}) \cup
  (IF "GRAV_ISOLATED_BOUNDARY_Y" \in flags THEN {"pot_boundary_y0", "pot_boundary_y1"} ELSE {}) \cup
  (IF "GRAV_ISOLATED_BOUNDARY_Z" \in flags THEN {"pot_boundary_z0", "pot_boundary_z1"} ELSE {})

\* the pointers FreeMemory_CPU calls free on, once each
Released(flags) ==
  {"density_h", "potential_h", "potential_1_h", "boundary_flags"} \cup
  (IF "GRAV_ISOLATED_BOUNDARY_X" \in flags THEN {"pot_boundary_x0", "pot_boundary_x1"} ELSE {}) \cup
  (IF "GRAV_ISOLATED_BOUNDARY_Y" \in flags THEN {"pot_boundary_y0", "pot_boundary_y1"} ELSE {}) \cup
  (IF "GRAV_ISOLATED_BOUNDARY_Z" \in flags THEN {"pot_boundary_z0", "pot_boundary_z1"} ELSE {}) \cup
  (IF "GRAVITY_ANALYTIC_COMP" \in flags THEN {"analytic_potential_h"} ELSE {})

FreeMemory_CPU ==
  /\ Grav_At("initialized")
  /\ conv' = [conv EXCEPT
       !.at = "freed",
       !.trace = Append(@, "FreeMemory_CPU"),
       !.buffers = [b \in DOMAIN conv.buffers |->
                      IF b \in Released(conv.flags) THEN Free(conv.buffers[b])
                      ELSE conv.buffers[b]],
       !.Poisson_solver = "reset"]
  /\ UNCHANGED param_vars

GravInit ==
  /\ ParamIdle
  /\ \E flags \in SUBSET Grav_Flags, init \in Grav_Inits, nfile \in 0..MaxFile,
        nx \in 1..MaxLocal, ny \in 1..MaxLocal, nz \in 1..MaxLocal, junk \in Junk :
       conv = Grav_Call(flags, init, nfile, nx, ny, nz, junk)

GravNext ==
  \/ Initialize_Fields \/ AllocateMemory_CPU \/ AllocateMemory_GPU \/ Initialize_values_CPU
  \/ Poisson_solver_Initialize \/ Read_Restart_HDF5 \/ Initialize_Returns \/ FreeMemory_CPU

GravSpec == GravInit /\ [][GravNext]_vars

(***************************************************************************)
(* Notions the properties are stated with.  They are written from the      *)
(* format of the input, not from the operators of the constructor.         *)
(***************************************************************************)
\* the characters of a name
NameChars == Digits \cup Letters \cup {"_", ".", "-"}

\* a name of characters in [A-Za-z0-9_.-] with no empty dot-separated segment
ValidName(name) ==
  /\ name # <<>>
  /\ \A i \in 1..Len(name) : name[i] \in NameChars
  /\ name[1] # "." /\ name[Len(name)] # "."
  /\ \A i \in 1..(Len(name) - 1) : ~(name[i] = "." /\ name[i + 1] = ".")

\* the tables a dotted name implies: "a.b.c" implies "a" and "a.b"
ImpliedTables(name) ==
  {SubSeq(name, 1, i - 1) : i \in {j \in 1..Len(name) : name[j] = "."}}

\* the 1-based position of the first '=' of text, 0 when there is none
EqualsAt(text) ==
  IF \E i \in 1..Len(text) : text[i] = "="
  THEN CHOOSE i \in 1..Len(text) : text[i] = "=" /\ \A j \in 1..(i - 1) : text[j] # "="
  ELSE 0

\* text has the form key=value: an '=' that is neither first nor last
HasKeyValueForm(text) == EqualsAt(text) > 1 /\ EqualsAt(text) < Len(text)

KeyOf(text) == SubSeq(text, 1, EqualsAt(text) - 1)

\* the value of a key=value text, without its leading and trailing whitespace
ValueOf(text) ==
  LET v == SubSeq(text, EqualsAt(text) + 1, Len(text))
      inner == {i \in 1..Len(v) : v[i] \notin SpaceChars}
  IN  IF inner = {} THEN <<>>
      ELSE SubSeq(v, CHOOSE i \in inner : \A j \in inner : i <= j,
                     CHOOSE i \in inner : \A j \in inner : i >= j)

\* a line that is neither blank, nor a comment, nor starts a heading
IsKeyValueLine(line) ==
  line[1] \notin {"\n", "#", ";", "["} /\ HasKeyValueForm(line)

\* the full name of key under heading T: "T.key", or key before any heading
Under(T, key) == IF T = <<>> THEN key ELSE T \o <<".">> \o key

\* the key of a token or line is written "key = value", with a space on
\* each side of the '=', and key is a valid name without a '.'
IsSpacedKeyValue(text) ==
  LET e == EqualsAt(text) IN
  /\ e > 2 /\ e + 1 < Len(text)
  /\ text[e - 1] = " " /\ text[e + 1] = " "
  /\ ValidName(SubSeq(text, 1, e - 2))
  /\ \A i \in 1..(e - 2) : text[i] # "."

SpacedKeyOf(text) == SubSeq(text, 1, EqualsAt(text) - 2)

\* the constructor returns
ConstructorReturns == pc = "cli" /\ pc' = "ready"

(***************************************************************************)
(* C1: construction fails whenever, over the whole input, some full name   *)
(* is both a table name (a [T] heading, or a dotted prefix of a heading or *)
(* of a parameter name) and a parameter name: when the constructor         *)
(* returns, no name is both.                                               *)
(***************************************************************************)
C1_TableParameterCollisionFails ==
  [][ConstructorReturns =>
       LET tables == hist.headings \cup
                     UNION {ImpliedTables(n) : n \in hist.headings \cup DOMAIN entries_}
       IN  tables \cap DOMAIN entries_ = {}]_vars

(***************************************************************************)
(* C2: the heading in force is the text of the last heading line of the    *)
(* file ("" before the first) and changes only at a heading line; a        *)
(* key/value line that is accepted is stored under "T.key" for the heading *)
(* T in force, under "key" when there is none.                             *)
(***************************************************************************)
C2_KeysStoredUnderHeadingInForce ==
  [][(last'.op = "line" /\ pc' = "file") =>
       /\ cur_table_header' = hist'.lineHeading
       /\ (last'.start /\ IsKeyValueLine(last'.buff)) =>
            /\ Under(hist'.lineHeading, KeyOf(last'.buff)) \in DOMAIN entries_'
            /\ \A n \in DOMAIN entries_' \ {Under(hist'.lineHeading, KeyOf(last'.buff))} :
                 n \in DOMAIN entries_ /\ entries_'[n] = entries_[n]]_vars

(***************************************************************************)
(* C3: a file line "key = value", with spaces around the '=', is accepted  *)
(* and defines the parameter key (under the heading in force) with the     *)
(* value stripped of its surrounding whitespace.                           *)
(***************************************************************************)
C3_SpacedKeyValueAccepted ==
  [][(pc = "file" /\ last'.op = "line" /\ last'.start /\ IsSpacedKeyValue(last'.buff)) =>
       /\ pc' = "file"
       /\ Under(cur_table_header, SpacedKeyOf(last'.buff)) \in DOMAIN entries_'
       /\ entries_'[Under(cur_table_header, SpacedKeyOf(last'.buff))].param_str
            = ValueOf(last'.buff)]_vars

(***************************************************************************)
(* C4: a token without a key=value form changes nothing; a token key=value *)
(* that is accepted sets the entry of key to value and no other; so when   *)
(* the constructor returns, every key that a token gave holds the value of *)
(* the last token that gave it, whatever the file said.                    *)
(***************************************************************************)
C4_CommandLineOverridesFile ==
  [][/\ (last'.op = "arg" /\ ~HasKeyValueForm(last'.arg)) =>
          (pc' = "cli" /\ entries_' = entries_)
     /\ (last'.op = "arg" /\ HasKeyValueForm(last'.arg) /\ pc' = "cli") =>
          /\ DOMAIN entries_' = DOMAIN entries_ \cup {KeyOf(last'.arg)}
          /\ entries_'[KeyOf(last'.arg)].param_str = ValueOf(last'.arg)
          /\ \A n \in DOMAIN entries_ \ {KeyOf(last'.arg)} : entries_'[n] = entries_[n]
     /\ ConstructorReturns =>
          /\ entries_' = entries_
          /\ \A i \in 1..Len(hist.argv) :
               (/\ HasKeyValueForm(hist.argv[i])
                /\ \A j \in (i + 1)..Len(hist.argv) :
                     ~(HasKeyValueForm(hist.argv[j]) /\ KeyOf(hist.argv[j]) = KeyOf(hist.argv[i])))
               => /\ KeyOf(hist.argv[i]) \in DOMAIN entries_
                  /\ entries_[KeyOf(hist.argv[i])].param_str = ValueOf(hist.argv[i])]_vars

\* two tokens gave a key of the file, and the entry holds the second one's value
C4_Witness ==
  /\ pc = "cli" /\ Len(hist.argv) = 2
  /\ HasKeyValueForm(hist.argv[1]) /\ HasKeyValueForm(hist.argv[2])
  /\ KeyOf(hist.argv[1]) = KeyOf(hist.argv[2])
  /\ ValueOf(hist.argv[1]) # ValueOf(hist.argv[2])
  /\ KeyOf(hist.argv[2]) \in DOMAIN hist.fileEntries
  /\ hist.fileEntries[KeyOf(hist.argv[2])].param_str # ValueOf(hist.argv[2])
  /\ entries_[KeyOf(hist.argv[2])].param_str = ValueOf(hist.argv[2])

(***************************************************************************)
(* C5: once the same heading text has been read on two heading lines of    *)
(* the file, the constructor has thrown: it reads no further and returns   *)
(* no map.                                                                 *)
(***************************************************************************)
C5_DuplicateHeadingFails == hist.dup => pc = "throw"

\* the third line of a file repeats a heading, after a key/value line was stored
C5_Witness ==
  /\ hist.dup /\ pc = "throw" /\ nread = 3
  /\ DOMAIN entries_ # {}
  /\ err = <<"runtime_error", "the header appears more than once">>

(***************************************************************************)
(* C6: every parameter name and every table name the constructor holds is  *)
(* made of characters in [A-Za-z0-9_.-] and has no empty dot-separated     *)
(* segment; a heading, a key of the file or a key of the command line that *)
(* is not makes the constructor throw.                                     *)
(***************************************************************************)
C6_NamesAreValid ==
  /\ pc # "throw" =>
       \A n \in DOMAIN entries_ \cup all_tables \cup explicit_tables : ValidName(n)
  /\ (last.op = "line" /\ IsHeadingLine(last.buff) /\ ~ValidName(HeadingText(last.buff)))
       => pc = "throw"
  /\ (last.op = "line" /\ IsKeyValueLine(last.buff) /\ ~ValidName(KeyOf(last.buff)))
       => pc = "throw"
  /\ (last.op = "arg" /\ HasKeyValueForm(last.arg) /\ ~ValidName(KeyOf(last.arg)))
       => pc = "throw"

\* a token with an empty segment in its key is refused after names were stored
C6_Witness ==
  /\ pc = "throw" /\ last.op = "arg"
  /\ HasKeyValueForm(last.arg) /\ ~ValidName(KeyOf(last.arg))
  /\ \A i \in 1..Len(KeyOf(last.arg)) : KeyOf(last.arg)[i] \in NameChars
  /\ DOMAIN entries_ # {} /\ all_tables # {}

(***************************************************************************)
(* C7: no call of size, has_param, param_has_type, value, value_or or      *)
(* warn_unused_parameters changes the set of parameter names or the value  *)
(* string of a parameter.                                                  *)
(***************************************************************************)
\* a step leaves the parameter names and their value strings as they are
SameNamesAndValues ==
  /\ DOMAIN entries_' = DOMAIN entries_
  /\ \A n \in DOMAIN entries_ : entries_'[n].param_str = entries_[n].param_str

C7_AccessorsKeepNamesAndValues ==
  [][(pc \in {"ready", "returned"}) => SameNamesAndValues]_vars

\* value_or returned the value of a parameter and recorded the access, beside
\* a parameter that was never read
C7_Witness ==
  /\ pc = "returned" /\ last.op = "value_or" /\ ~last.defaulted
  /\ entries_[last.param].accessed
  /\ \E n \in DOMAIN entries_ : ~entries_[n].accessed

(***************************************************************************)
(* C8: warn_unused_parameters(ignore_params) returns the number of         *)
(* parameters that neither value nor value_or has returned the value of    *)
(* and that are not in ignore_params; a value or value_or that returns the *)
(* value of an existing parameter leaves it marked as accessed.            *)
(***************************************************************************)
C8_WarnCountsUnreadParameters ==
  /\ (last.op = "warn_unused_parameters" /\ ~last.aborted) =>
       last.ret = Cardinality({n \in DOMAIN entries_ :
                                 n \notin hist.read /\ n \notin last.ignore_params})
  /\ (last.op \in {"value", "value_or"} /\ ~last.aborted /\ last.param \in DOMAIN entries_) =>
       entries_[last.param].accessed

\* a count that leaves out a parameter that was read and one that is ignored
C8_Witness ==
  /\ last.op = "warn_unused_parameters" /\ ~last.aborted
  /\ hist.read # {}
  /\ last.ignore_params \cap DOMAIN entries_ # {}
  /\ last.ignore_params \cap hist.read = {}
  /\ last.ret > 0

(***************************************************************************)
(* C9: with abort_on_warning, warn_unused_parameters raises the fatal      *)
(* error when a parameter is unaccessed and not ignored, and returns 0     *)
(* when there is none; without it, it always returns.                      *)
(***************************************************************************)
C9_AbortOnWarning ==
  last.op = "warn_unused_parameters" =>
    LET unread == {n \in DOMAIN entries_ :
                     ~entries_[n].accessed /\ n \notin last.ignore_params}
    IN  /\ (last.abort_on_warning /\ unread # {}) =>
             (pc = "abort" /\ err = <<"unknown parameter">>)
        /\ (last.abort_on_warning /\ unread = {}) =>
             (pc = "returned" /\ last.ret = 0)
        /\ ~last.abort_on_warning => pc = "returned"

\* the fatal error is raised for a map of which one parameter was read
C9_Witness ==
  /\ last.op = "warn_unused_parameters" /\ last.abort_on_warning
  /\ pc = "abort" /\ hist.read # {}

(***************************************************************************)
(* C10: value_or(p, d) for a parameter p that exists and whose string is   *)
(* not a value of the requested type ends the program with a type error:   *)
(* it does not return, and it leaves the accessed flag of p as it was.     *)
(***************************************************************************)
\* str as a whole is a value of type T: "true" or "false"; a base-10 integer
\* of 64 bits; a floating-point number in the range of a double; any string
IsValueOfType(T, str) ==
  CASE T = "bool" -> str \in {<<"t", "r", "u", "e">>, <<"f", "a", "l", "s", "e">>}
    [] T = "int64_t" -> /\ strtoll(str).ptr_end > 0
                         /\ strtoll(str).ptr_end = Len(str)
                         /\ ~strtoll(str).erange
    [] T = "double" -> /\ strtod(str).ptr_end > 0
                        /\ strtod(str).ptr_end = Len(str)
                        /\ ~strtod(str).erange
    [] T = "string" -> TRUE

C10_MismatchedValueOrAborts ==
  [][(/\ pc = "ready" /\ last'.op = "value_or"
      /\ last'.param \in DOMAIN entries_
      /\ ~IsValueOfType(last'.T, entries_[last'.param].param_str)) =>
       (pc' = "abort" /\ err'[1] = "type" /\ entries_' = entries_)]_vars

(***************************************************************************)
(* C11: value<T>(p) for a name p that is not in the map ends the program   *)
(* with the "parameter was not specified" error; value_or(p, d) for such a *)
(* p returns d and leaves the entries, and so every accessed flag, as they *)
(* were.                                                                   *)
(***************************************************************************)
C11_MissingParameter ==
  [][(/\ pc = "ready" /\ last'.op \in {"value", "value_or"}
      /\ last'.param \notin DOMAIN entries_) =>
       IF last'.op = "value"
       THEN pc' = "abort" /\ err' = <<"not specified">>
       ELSE /\ pc' = "returned" /\ last'.ret = DefaultVal(last'.T)
            /\ entries_' = entries_ /\ hist'.read = hist.read]_vars

\* value_or returned its default for the name that is not in a non-empty map
C11_Witness ==
  /\ pc = "returned" /\ last.op = "value_or" /\ last.param \notin DOMAIN entries_
  /\ last.ret = DefaultVal(last.T) /\ entries_ # <<>>

(***************************************************************************)
(* C12: has_param(p) and param_has_type<T>(p) return without ending the    *)
(* program and leave the entries, and so every accessed flag and the count *)
(* of warn_unused_parameters, as they were; param_has_type returns false   *)
(* when p is not in the map or its string is not a value of type T.        *)
(***************************************************************************)
C12_QueriesAreReadOnly ==
  [][(pc = "ready" /\ last'.op \in {"has_param", "param_has_type"}) =>
       /\ pc' = "returned" /\ entries_' = entries_
       /\ \A ignore_params \in IgnoreSets :
            Unused(entries_', ignore_params) = Unused(entries_, ignore_params)
       /\ (/\ last'.op = "param_has_type"
           /\ \/ last'.param \notin DOMAIN entries_
              \/ ~IsValueOfType(last'.T, entries_[last'.param].param_str)) =>
            last'.ret = FALSE]_vars

(***************************************************************************)
(* C13: try_bool_ accepts a string exactly when it is "true" or "false",   *)
(* in lower case and with nothing else in it: "true" gives true, "false"   *)
(* gives false; every other string gives the boolean type error and leaves *)
(* the output value unassigned.                                            *)
(***************************************************************************)
C13_BoolExactlyTrueOrFalse ==
  (conv.fn = "try_bool_" /\ conv.done) =>
    /\ conv.err = "none" <=> conv.str \in {<<"t", "r", "u", "e">>, <<"f", "a", "l", "s", "e">>}
    /\ conv.err = "none" => conv.val = (conv.str = <<"t", "r", "u", "e">>)
    /\ conv.err # "none" => (conv.err = "boolean" /\ conv.val = "unassigned")

\* a string that starts with "true" and holds more was refused
C13_Witness ==
  /\ conv.fn = "try_bool_" /\ conv.done
  /\ Len(conv.str) = 5 /\ SubSeq(conv.str, 1, 4) = <<"t", "r", "u", "e">>
  /\ conv.err = "boolean"

(***************************************************************************)
(* C14: starpu performs at most 20 Newton iterations, each one evaluation  *)
(* of the left and right pressure functions followed by one update of the  *)
(* pressure iterate, for any input.                                        *)
(***************************************************************************)
C14_AtMostTwentyIterations ==
  conv.fn = "Calculate_Exact_Fluxes" => conv.iterations <= 20

(***************************************************************************)
(* C15: when the loop of starpu ends without meeting the tolerance, no     *)
(* error is raised and the program goes on: starpu returns the last        *)
(* pressure iterate and the star velocity of the last pressure-function    *)
(* values, then the solution is sampled and every flux component is        *)
(* assigned.                                                               *)
(***************************************************************************)
C15_NonConvergenceGoesOn ==
  [][(conv.fn = "Calculate_Exact_Fluxes" /\ conv.i > nriter) =>
       /\ conv'.at # "exit"
       /\ conv.at = "star" =>
            /\ conv'.at = "sample"
            /\ conv.pm = conv.pold /\ conv'.pm = conv.pm
            /\ conv'.um = Mul(Half, Sub(Add(Add(conv.vxl, conv.vxr), conv.fr), conv.fl))
       /\ conv.at = "sample" =>
            conv'.at = "fluxes" /\ Unset \notin {conv'.ds, conv'.us, conv'.ps}
       /\ conv.at = "fluxes" =>
            /\ conv'.at = "done"
            /\ \A j \in 0..4 : conv'.fluxes[j] # Unset
            /\ conv.DE => conv'.fluxes[5] # Unset]_vars

C15_Witness ==
  /\ Exact_At("done") /\ conv.i > nriter /\ conv.iterations = nriter + 1
  /\ \A j \in 0..4 : conv.fluxes[j] # Unset

(***************************************************************************)
(* C16: the transverse-momentum fluxes and, with DE, the internal-energy   *)
(* flux are the mass flux times the quantity of the left state when the    *)
(* star velocity sample branched on is >= 0, and of the right state        *)
(* otherwise: the test of us selects the side that sample branched to.     *)
(***************************************************************************)
\* the paths of sample for vm >= 0
Left_Paths ==
  { "left data (rarefaction)", "left star (rarefaction)", "left fan",
    "left data (shock)", "left star (shock)" }

C16_UpwindedWithContact ==
  Exact_At("done") =>
    /\ conv.side = "left" <=> conv.path \in Left_Paths
    /\ conv.fluxes[2] = Mul(conv.fluxes[0], IF conv.path \in Left_Paths THEN conv.vyl ELSE conv.vyr)
    /\ conv.fluxes[3] = Mul(conv.fluxes[0], IF conv.path \in Left_Paths THEN conv.vzl ELSE conv.vzr)
    /\ conv.fluxes[5] = Mul(conv.fluxes[0], IF conv.path \in Left_Paths THEN conv.gel ELSE conv.ger)

(***************************************************************************)
(* C17: sample branches on the sign of vm, then on shock or rarefaction.   *)
(* For vm >= 0 what it assigns depends on pm, vm, gamma and the left state *)
(* only, and it takes the left-rarefaction branch iff pm <= pl; for vm < 0 *)
(* it depends on the right state only and takes the right-shock branch iff *)
(* pm > pr; every path assigns d, u and p.                                 *)
(***************************************************************************)
C17_SampleBranches ==
  (conv.fn = "sample" /\ conv.done) =>
    /\ conv.out # {}
    /\ \A o \in conv.out : Unset \notin {o.d, o.u, o.p}
    /\ Geq(conv.vm, Zero) = {TRUE} =>
         /\ conv.out_other_right = conv.out
         /\ \A o \in conv.out :
              /\ o.path \in Left_Paths
              /\ o.path \in {"left data (rarefaction)", "left star (rarefaction)", "left fan"}
                   <=> Leq(conv.pm, conv.left.p) = {TRUE}
    /\ Lt(conv.vm, Zero) = {TRUE} =>
         /\ conv.out_other_left = conv.out
         /\ \A o \in conv.out :
              /\ o.path \notin Left_Paths
              /\ o.path \in {"right data (shock)", "right star (shock)"}
                   <=> Gt(conv.pm, conv.right.p) = {TRUE}

C17_Witness ==
  /\ conv.fn = "sample" /\ conv.done /\ Geq(conv.vm, Zero) = {TRUE}
  /\ conv.other # conv.right /\ conv.other.p # conv.right.p
  /\ \E o \in conv.out : o.path = "left star (shock)"

(***************************************************************************)
(* C18: for identical left and right states W (of positive density and     *)
(* positive derived pressure) the solver returns the analytic flux F(W):   *)
(* rho*vx, rho*vx^2 + p, rho*vx*vy, rho*vx*vz and (E + p)*vx.  Stated for  *)
(* the states whose sound speed the arithmetic of the model holds exactly. *)
(***************************************************************************)
\* both sides of the interface hold the same state
Identical_Sides(cW) == \A j \in {0, 2, 4, 6, 8, 10} : cW[j] = cW[j + 1]

\* the left state has a positive density and a positive derived pressure,
\* and a sound speed that is held exactly
Admissible_Exact(c) ==
  /\ Gt(c.cW[0], Zero) = {TRUE}
  /\ Gt(Derived_Pressure(c.cW, 0, c.gamma), Zero) = {TRUE}
  /\ \A v \in Sound_Speed(c.cW, 0, c.gamma) : IsExact(v)

Floored(x) == IF Leq(TINY_NUMBER, x) = {TRUE} THEN x ELSE TINY_NUMBER

C20_FloorAndGoOn ==
  conv.fn = "Calculate_Exact_Fluxes" =>
    /\ conv.at # "exit"
    /\ conv.at # "entry" =>
         /\ conv.pl = Floored(Derived_Pressure(conv.cW, 0, conv.gamma))
         /\ conv.pr = Floored(Derived_Pressure(conv.cW, 1, conv.gamma))
         /\ conv.cl = Sqrt(Div(Mul(conv.gamma, conv.pl), conv.dl))
         /\ conv.cr = Sqrt(Div(Mul(conv.gamma, conv.pr), conv.dr))
    /\ conv.at = "done" => \A j \in 0..4 : conv.fluxes[j] # Unset

C20_Witness ==
  /\ Exact_At("done") /\ conv.cW = Conserved(Negative_Pressure, Rest)
  /\ Lt(Derived_Pressure(conv.cW, 0, conv.gamma), Zero) = {TRUE}
  /\ conv.pl = TINY_NUMBER /\ conv.pr # TINY_NUMBER
  /\ \A j \in 0..4 : conv.fluxes[j] # Unset

(***************************************************************************)
(* C21: while the constructor reads a physical line that is blank, starts  *)
(* with '#' or ';', or starts no heading and has no '=', has it as its     *)
(* first character or has it as its very last character, no entry is       *)
(* added or changed, the heading in force stays as it is and no error is   *)
(* raised.                                                                 *)
(***************************************************************************)
\* a physical line that is to be skipped
IsSkippedLine(line) ==
  \/ line[1] \in {"\n", "#", ";"}
  \/ line[1] # "[" /\ ~HasKeyValueForm(line)

C21_SkippedLinesChangeNothing ==
  [][(pc = "file" /\ last'.op = "line" /\ IsSkippedLine(last'.line)) =>
       /\ pc' = "file" /\ err' = err
       /\ entries_' = entries_
       /\ cur_table_header' = cur_table_header]_vars

(***************************************************************************)
(* C22: a key/value line of the file whose key contains a '.' makes the    *)
(* constructor throw, whether a heading is in force or not; a command-line *)
(* token whose key is a valid dotted name, no dotted prefix of which is a  *)
(* parameter, is accepted and sets the entry of exactly that name.         *)
(***************************************************************************)
HasDot(name) == \E i \in 1..Len(name) : name[i] = "."

C22_DottedKeys ==
  [][/\ (/\ pc = "file" /\ last'.op = "line" /\ last'.start
         /\ IsKeyValueLine(last'.line) /\ HasDot(KeyOf(last'.line))) =>
          (pc' = "throw" /\ err'[1] = "runtime_error" /\ entries_' = entries_)
     /\ (/\ pc = "cli" /\ last'.op = "arg" /\ HasKeyValueForm(last'.arg)
         /\ HasDot(KeyOf(last'.arg)) /\ ValidName(KeyOf(last'.arg))
         /\ ImpliedTables(KeyOf(last'.arg)) \cap DOMAIN entries_ = {}) =>
          /\ pc' = "cli"
          /\ DOMAIN entries_' = DOMAIN entries_ \cup {KeyOf(last'.arg)}
          /\ entries_'[KeyOf(last'.arg)].param_str = ValueOf(last'.arg)
          /\ \A n \in DOMAIN entries_ \ {KeyOf(last'.arg)} : entries_'[n] = entries_[n]]_vars

\* a token with a dotted key replaced the value that the file gave, under a
\* heading, to the parameter of that name
C22_Witness ==
  /\ pc = "cli" /\ last.op = "arg" /\ HasKeyValueForm(last.arg)
  /\ HasDot(KeyOf(last.arg))
  /\ hist.headings # {}
  /\ KeyOf(last.arg) \in DOMAIN hist.fileEntries
  /\ hist.fileEntries[KeyOf(last.arg)].param_str # ValueOf(last.arg)
  /\ entries_[KeyOf(last.arg)].param_str = ValueOf(last.arg)

(***************************************************************************)
(* C25: value<T> and param_has_type<T>, for T int64_t or double, succeed   *)
(* on a parameter only when its whole string was consumed as a number and  *)
(* at least one character was converted; a string of which a proper,       *)
(* non-empty prefix is the number makes value<T> end with the generic type *)
(* error.                                                                  *)
(***************************************************************************)
\* the result of the C function that converts str to T
Scanned(T, str) == IF T = "int64_t" THEN strtoll(str) ELSE strtod(str)

C25_NumbersConsumeWholeString ==
  (/\ last.op \in {"value", "param_has_type"}
   /\ last.T \in {"int64_t", "double"}
   /\ last.param \in DOMAIN entries_) =>
    LET str == entries_[last.param].param_str
        succeeded == IF last.op = "value" THEN ~last.aborted ELSE last.ret
    IN  /\ succeeded => IsValueOfType(last.T, str)
        /\ (/\ last.op = "value"
            /\ Scanned(last.T, str).ptr_end > 0
            /\ Scanned(last.T, str).ptr_end < Len(str)
            /\ ~Scanned(last.T, str).erange) =>
             (pc = "abort" /\ err = <<"type", last.T, "invalid value">>)

(***************************************************************************)
(* C26: when the constructor returns, no entry is marked as accessed, and  *)
(* a warn_unused_parameters called first, with no name to ignore, returns  *)
(* the number of entries; afterwards an entry that is marked stays marked, *)
(* every warn_unused_parameters returns the number of unmarked entries     *)
(* outside its ignore set, and for no ignore set does that number grow.    *)
(***************************************************************************)
\* the entries of map entries that are not marked and not in ignore
Unmarked(entries, ignore) ==
  {n \in DOMAIN entries : ~entries[n].accessed /\ n \notin ignore}

C26_AccessedFlagsOnlyRise ==
  [][/\ ConstructorReturns => \A n \in DOMAIN entries_' : ~entries_'[n].accessed
     /\ (last.op = "constructed" /\ last'.op = "warn_unused_parameters"
         /\ last'.ignore_params = {}) =>
          last'.ret = Cardinality(DOMAIN entries_)
     /\ last'.op = "warn_unused_parameters" =>
          last'.ret = Cardinality(Unmarked(entries_, last'.ignore_params))
     /\ pc \in {"ready", "returned"} =>
          /\ \A n \in DOMAIN entries_ :
               entries_[n].accessed => (n \in DOMAIN entries_' /\ entries_'[n].accessed)
          /\ \A ignore \in SUBSET (DOMAIN entries_ \cup {Missing}) :
               Cardinality(Unmarked(entries_', ignore)) <= Cardinality(Unmarked(entries_, ignore))]_vars

\* an entry of the map was read and another was not: the count with no name
\* to ignore is below the number of entries
C26_Witness ==
  /\ pc = "returned" /\ last.op = "warn_unused_parameters" /\ last.ignore_params = {}
  /\ last.ret > 0 /\ last.ret < Cardinality(DOMAIN entries_)
  /\ \E n \in DOMAIN entries_ : entries_[n].accessed

(***************************************************************************)
(* C28: a key/value line of the file that defines a full name the map      *)
(* already holds is accepted without error; the map keeps one entry for    *)
(* the name, which now holds the value of this line, and every other       *)
(* entry is as it was.                                                     *)
(***************************************************************************)
\* line is a key/value line whose key is a valid name without a '.'
DefinesParameter(line) ==
  IsKeyValueLine(line) /\ ValidName(KeyOf(line)) /\ ~HasDot(KeyOf(line))

C28_LastDefinitionWins ==
  [][(/\ pc = "file" /\ last'.op = "line" /\ last'.start
      /\ DefinesParameter(last'.line)
      /\ Under(cur_table_header, KeyOf(last'.line)) \in DOMAIN entries_) =>
       /\ pc' = "file" /\ err' = err
       /\ DOMAIN entries_' = DOMAIN entries_
       /\ entries_'[Under(cur_table_header, KeyOf(last'.line))].param_str = ValueOf(last'.line)
       /\ \A n \in DOMAIN entries_ \ {Under(cur_table_header, KeyOf(last'.line))} :
            entries_'[n] = entries_[n]]_vars

(***************************************************************************)
(* C29: what the constructor classifies and parses is always a whole       *)
(* physical line of the file, never a piece of one: no tail of a line is   *)
(* taken for a line of its own.                                            *)
(***************************************************************************)
C29_LinesParsedWhole ==
  last.op = "line" => (last.start /\ last.buff = last.line)

(***************************************************************************)
(* C27: in starpu, for left and right densities and pressures that are     *)
(* positive and finite, and finite velocities and sound speeds, the        *)
(* pressure pold that prefun is called with is negative in no iteration,   *)
(* and the pressure *p is not negative once an iteration has ended, when   *)
(* the loop has ended and when starpu has returned.                        *)
(***************************************************************************)
IsFiniteValue(v) == v.k \notin {"nan", "pinf", "ninf"}

\* the arguments of starpu are finite, the densities and pressures positive
Starpu_Admissible(c) ==
  /\ \A v \in c.dl \cup c.dr \cup c.pl \cup c.pr : IsPos(v) /\ IsFiniteValue(v)
  /\ \A v \in c.vxl \cup c.vxr \cup c.cl \cup c.cr : IsFiniteValue(v)

C27_PressureNeverNegative ==
  (/\ conv.fn = "Calculate_Exact_Fluxes"
   /\ conv.at \notin {"entry", "starpu"}
   /\ Starpu_Admissible(conv)) =>
    \A v \in conv.pold \cup conv.pm : ~IsNeg(v)

\* starpu returned a pressure after an iteration in which the Newton iterate
\* could be negative and was replaced by TOL
C27_Witness ==
  /\ conv.fn = "Calculate_Exact_Fluxes" /\ conv.at = "sample"
  /\ Starpu_Admissible(conv)
  /\ conv.iterations > 1
  /\ \E v \in conv.pm : v.k = "eps"
  /\ \A v \in conv.pm : ~IsNeg(v)

(***************************************************************************)
(* C23: when Grav3D::Initialize has returned and made no restart (init is  *)
(* not "Read_Grid", or nfile is 0), density_h has n_cells elements,        *)
(* potential_h and potential_1_h have n_cells_potential elements each,     *)
(* every one of them is 0, INITIAL is true, dt_prev and dt_now are 0, and  *)
(* TRANSFER_POTENTIAL_BOUNDARIES and BC_FLAGS_SET are false.               *)
(***************************************************************************)
\* an array of n elements, all 0
Zeros(n) == [id \in 0..(n - 1) |-> 0]

\* the number of local cells with the ghost cells of the potential
Cells_With_Ghosts(nx, ny, nz) ==
  (nx + 2 * N_GHOST_POTENTIAL) * (ny + 2 * N_GHOST_POTENTIAL) * (nz + 2 * N_GHOST_POTENTIAL)

C23_InitializedToZero ==
  (Grav_At("initialized") /\ (conv.init # "Read_Grid" \/ conv.nfile = 0)) =>
    /\ conv.buffers.density_h.data = Zeros(conv.nx * conv.ny * conv.nz)
    /\ conv.buffers.potential_h.data = Zeros(Cells_With_Ghosts(conv.nx, conv.ny, conv.nz))
    /\ conv.buffers.potential_1_h.data = Zeros(Cells_With_Ghosts(conv.nx, conv.ny, conv.nz))
    /\ conv.INITIAL = TRUE
    /\ conv.dt_prev = 0 /\ conv.dt_now = 0
    /\ conv.TRANSFER_POTENTIAL_BOUNDARIES = FALSE /\ conv.BC_FLAGS_SET = FALSE

\* Initialize returned for init "Read_Grid" and nfile 0, on an object and
\* on memory that held values other than 0
C23_Witness ==
  /\ Grav_At("initialized") /\ conv.init = "Read_Grid" /\ conv.nfile = 0
  /\ conv.junk # 0 /\ conv.nx * conv.ny * conv.nz > 1
  /\ \A id \in DOMAIN conv.buffers.potential_1_h.data : conv.buffers.potential_1_h.data[id] = 0

(***************************************************************************)
(* C24: Initialize calls Read_Restart_HDF5 if and only if init is          *)
(* "Read_Grid" and nfile > 0; the call comes after AllocateMemory_CPU,     *)
(* Initialize_values_CPU and the initialisation of the Poisson solver, and *)
(* it is the last step of Initialize: when Initialize has returned, the    *)
(* object holds what Read_Restart_HDF5 left.                               *)
(***************************************************************************)
\* the 1-based positions of call in the sequence of the calls made
Calls(call) == {k \in 1..Len(conv.trace) : conv.trace[k] = call}

C24_RestartComesLast ==
  conv.fn = "Grav3D::Initialize" =>
    /\ conv.at \in {"initialized", "freed"} =>
         (Calls("Read_Restart_HDF5") # {} <=> (conv.init = "Read_Grid" /\ conv.nfile > 0))
    /\ \A k \in Calls("Read_Restart_HDF5") :
         /\ Calls("Read_Restart_HDF5") = {k}
         /\ \E a \in Calls("AllocateMemory_CPU"), z \in Calls("Initialize_values_CPU"),
               s \in Calls("Poisson_solver.Initialize") : a < z /\ z < k /\ s < k
         /\ \A j \in (k + 1)..Len(conv.trace) : conv.trace[j] = "FreeMemory_CPU"
    /\ (conv.at = "initialized" /\ Calls("Read_Restart_HDF5") # {}) =>
         /\ conv.restored.called
         /\ conv.dt_now = conv.restored.dt_now
         /\ conv.INITIAL = conv.restored.INITIAL
         /\ conv.buffers.potential_1_h.data = conv.restored.potential_1_h

\* Initialize returned after a restart: the potential of the previous step
\* holds the values of the file, the other arrays hold zeros
C24_Witness ==
  /\ Grav_At("initialized") /\ conv.restored.called
  /\ conv.trace[Len(conv.trace)] = "Read_Restart_HDF5"
  /\ \A id \in DOMAIN conv.buffers.potential_1_h.data : conv.buffers.potential_1_h.data[id] # 0
  /\ \A id \in DOMAIN conv.buffers.potential_h.data : conv.buffers.potential_h.data[id] = 0
  /\ conv.dt_now # 0 /\ ~conv.INITIAL

(***************************************************************************)
(* C30: under every set of compile flags, FreeMemory_CPU after Initialize  *)
(* calls free exactly once on every host buffer that AllocateMemory_CPU    *)
(* set with malloc and on no other: density_h, potential_h, potential_1_h  *)
(* and boundary_flags, the two buffers of each isolated boundary whose     *)
(* flag is defined, and analytic_potential_h under GRAVITY_ANALYTIC_COMP.  *)
(* No host buffer is left allocated, none is released that was not         *)
(* allocated.                                                              *)
(***************************************************************************)
\* the host buffers the object is to own under the compile flags flags
Owned_Buffers(flags) ==
  {b \in Host_Buffers :
     \/ b \in {"density_h", "potential_h", "potential_1_h", "boundary_flags"}
     \/ b \in {"pot_boundary_x0", "pot_boundary_x1"} /\ "GRAV_ISOLATED_BOUNDARY_X" \in flags
     \/ b \in {"pot_boundary_y0", "pot_boundary_y1"} /\ "GRAV_ISOLATED_BOUNDARY_Y" \in flags
     \/ b \in {"pot_boundary_z0", "pot_boundary_z1"} /\ "GRAV_ISOLATED_BOUNDARY_Z" \in flags
     \/ b = "analytic_potential_h" /\ "GRAVITY_ANALYTIC_COMP" \in flags}

C30_FreedWhatWasAllocated ==
  conv.fn = "Grav3D::Initialize" =>
    /\ \A b \in Host_Buffers : conv.buffers[b].frees <= conv.buffers[b].allocs
    /\ conv.at \in {"initialized", "freed"} =>
         \A b \in Host_Buffers :
           conv.buffers[b].allocs = IF b \in Owned_Buffers(conv.flags) THEN 1 ELSE 0
    /\ conv.at = "initialized" => \A b \in Host_Buffers : conv.buffers[b].frees = 0
    /\ conv.at = "freed" =>
         \A b \in Host_Buffers : conv.buffers[b].frees = conv.buffers[b].allocs

\* FreeMemory_CPU returned under GRAVITY_ANALYTIC_COMP and one isolated
\* boundary: their buffers were allocated and released, the others never
C30_Witness ==
  /\ Grav_At("freed")
  /\ conv.flags = {"GRAVITY_ANALYTIC_COMP", "GRAV_ISOLATED_BOUNDARY_Y"}
  /\ conv.buffers["analytic_potential_h"].frees = 1
  /\ conv.buffers["pot_boundary_y1"].frees = 1
  /\ conv.buffers["pot_boundary_x0"].allocs = 0

====
